---------------------------- MODULE Spec2Model ----------------------------
(***************************************************************************)
(* A model of @notjustanna/log4js: the level gate, the text renderers      *)
(* (plain console, styled console, file), the structured (Lambda) logger,  *)
(* the delegate (multiplexer) logger and the shared output functions.      *)
(*                                                                         *)
(* Strings are sequences of lexemes.  A lexeme is a TLA+ string standing   *)
(* for one maximal piece of text as the regular expressions of the code    *)
(* see it: a single whitespace character (" " or "\n"), a magic tag opener *)
(* `<NAME PARAM>`, a magic tag closer `</NAME>`, or a run of other text.   *)
(* JavaScript values are records [t |-> type, s |-> text].                 *)
(***************************************************************************)
EXTENDS Naturals, Sequences, FiniteSets, TLC

VARIABLES
    env,                          \* process.env: LOG4JS_LEVEL, LOG4JS_FILE, LOG4JS_MODE,
                                  \*   AWS_LAMBDA_FUNCTION_NAME
    supportsColor,                \* chalk.supportsColor (chalk.level > 0)
    lambdaLog,                    \* TRUE iff require('lambda-log') succeeded
    warnedAboutMissingLambdaLog,  \* LambdaLogger.warnedAboutMissingLambdaLog
    stdout,                       \* ConsoleLogger.stdout (the function installed)
    writeFile,                    \* FileLogger.writeFile (the function installed)
    currentFilePath,              \* FileLogger.currentFilePath
    loggers,                      \* the logger instances constructed so far
    trace,                        \* everything observable the process did, in order
    calls                         \* the log calls issued by the caller, in order

vars == << env, supportsColor, lambdaLog, warnedAboutMissingLambdaLog, stdout,
           writeFile, currentFilePath, loggers, trace, calls >>

-----------------------------------------------------------------------------
(* Bounds of the model.                                                    *)

MaxLoggers == 2      \* logger instances constructed in one behaviour
MaxCalls == 2        \* log calls issued in one behaviour
MaxChildren == 2   \* children of one DelegateLogger
MaxTokens == 5     \* lexemes of a string the tag matcher is run on

-----------------------------------------------------------------------------
(* Generic helpers on sequences.                                           *)

Range(s) == { s[i] : i \in 1..Len(s) }

RECURSIVE Flatten(_)
Flatten(ss) == IF ss = << >> THEN << >> ELSE Head(ss) \o Flatten(Tail(ss))

\* JavaScript `undefined` and `null` where a string is expected.
undefined == << "undefined" >>
null == << "null" >>

-----------------------------------------------------------------------------
(* src/src/logger.level.ts                                                 *)

LogLevel == { "error", "warn", "info", "debug" }

LOG_LEVEL_PRIORITY == [ error |-> 0, warn |-> 1, info |-> 2, debug |-> 3 ]

shouldLog_inverted(messageLevel, minLevel) ==
    LOG_LEVEL_PRIORITY[messageLevel] >= LOG_LEVEL_PRIORITY[minLevel]

shouldLog(messageLevel, minLevel) ==
    LOG_LEVEL_PRIORITY[messageLevel] <= LOG_LEVEL_PRIORITY[minLevel]

\* String.prototype.toLowerCase, character by character.
LowerCaseLetters ==
    << "a", "b", "c", "d", "e", "f", "g", "h", "i", "j", "k", "l", "m",
       "n", "o", "p", "q", "r", "s", "t", "u", "v", "w", "x", "y", "z" >>

UpperCaseLetters ==
    << "A", "B", "C", "D", "E", "F", "G", "H", "I", "J", "K", "L", "M",
       "N", "O", "P", "Q", "R", "S", "T", "U", "V", "W", "X", "Y", "Z" >>

LowerOf(c) ==
    IF \E i \in 1..26 : UpperCaseLetters[i] = c
    THEN LowerCaseLetters[CHOOSE i \in 1..26 : UpperCaseLetters[i] = c]
    ELSE c

toLowerCase(s) == [ i \in 1..Len(s) |-> LowerOf(s[i]) ]

WhiteSpace == { " ", "\n", "\t" }

RECURSIVE trimStart(_)
trimStart(s) ==
    IF s # << >> /\ Head(s) \in WhiteSpace THEN trimStart(Tail(s)) ELSE s

RECURSIVE trimEnd(_)
trimEnd(s) ==
    IF s # << >> /\ s[Len(s)] \in WhiteSpace
    THEN trimEnd(SubSeq(s, 1, Len(s) - 1))
    ELSE s

trim(s) == trimStart(trimEnd(s))

\* The level names spelled out, for the comparison `normalized === 'debug'`.
LevelChars ==
    [ debug |-> << "d", "e", "b", "u", "g" >>,
      info  |-> << "i", "n", "f", "o" >>,
      warn  |-> << "w", "a", "r", "n" >>,
      error |-> << "e", "r", "r", "o", "r" >> ]

parseLogLevel_noTrim(envValue) ==
    LET known(normalized) ==
            IF \E l \in LogLevel : LevelChars[l] = normalized
            THEN CHOOSE l \in LogLevel : LevelChars[l] = normalized
            ELSE "info"
    IN  IF envValue = undefined \/ envValue = << >> THEN "info"
        ELSE known(toLowerCase(envValue))

parseLogLevel(envValue) ==
    LET known(normalized) ==
            IF \E l \in LogLevel : LevelChars[l] = normalized
            THEN CHOOSE l \in LogLevel : LevelChars[l] = normalized
            ELSE "info"
    IN  IF envValue = undefined \/ envValue = << >> THEN "info"
        ELSE known(trim(toLowerCase(envValue)))

-----------------------------------------------------------------------------
(* JavaScript values as the loggers see them.                              *)

Str(s) == [ t |-> "string", s |-> s ]
Num(s) == [ t |-> "number", s |-> s ]
Undef == [ t |-> "undefined", s |-> << >> ]

\* `meta?: object`: absent, or an object given as its fields in insertion order.
NoMeta == [ present |-> FALSE, fields |-> << >> ]
Meta(fields) == [ present |-> TRUE, fields |-> fields ]

HasKey(fields, k) == \E i \in 1..Len(fields) : fields[i].k = k

\* An object literal that leaves the message out.
SpreadMsg_noMessage(msg, fields) == fields

\* The object literal `{ msg, ...meta }`: msg comes first; a later field of
\* the same key replaces the value and keeps the position.
SpreadMsg(msg, fields) ==
    LET own == CHOOSE i \in 1..Len(fields) : fields[i].k = "msg"
        rest == SelectSeq(fields, LAMBDA f : f.k # "msg")
    IN  IF HasKey(fields, "msg")
        THEN << [ k |-> "msg", v |-> fields[own].v ] >> \o rest
        ELSE << [ k |-> "msg", v |-> msg ] >> \o fields

-----------------------------------------------------------------------------
(* Magic tags: /<(hl|chalk) +([\w-]+) *>([\s\S]+?)<\/\1 *>/g               *)
(* src/unnamed/part_003:106, src/src/logger.delegate.ts:156                *)

\* Lexemes of the form `<NAME PARAM>` with NAME in (hl|chalk), PARAM in [\w-]+.
OpenTags ==
    { "<hl sql>", "<hl js>", "<hl a>", "<hl b>", "<hl nolang>",
      "<chalk green>", "<chalk green-bold>", "<chalk green-nope-bold>",
      "<chalk level>", "<chalk level-bold>" }

\* Lexemes of the form `</NAME>` with NAME in (hl|chalk).
CloseTags == { "</hl>", "</chalk>" }

\* Capture group 1 of an opener.
TagName(tok) ==
    IF tok \in { "<hl sql>", "<hl js>", "<hl a>", "<hl b>", "<hl nolang>" }
    THEN "hl" ELSE "chalk"

\* Capture group 2 of an opener.
TagParam(tok) ==
    CASE tok = "<hl sql>" -> "sql"
      [] tok = "<hl js>" -> "js"
      [] tok = "<hl a>" -> "a"
      [] tok = "<hl b>" -> "b"
      [] tok = "<hl nolang>" -> "nolang"
      [] tok = "<chalk green>" -> "green"
      [] tok = "<chalk green-bold>" -> "green-bold"
      [] tok = "<chalk green-nope-bold>" -> "green-nope-bold"
      [] tok = "<chalk level>" -> "level"
      [] tok = "<chalk level-bold>" -> "level-bold"

\* The closer `<\/\1 *>` that the back-reference demands for an opener.
CloserOf(tok) == "</" \o TagName(tok) \o ">"

\* First index k >= j with s[k] = closer, or 0.
FirstAt(s, closer, j) ==
    LET ks == { k \in j..Len(s) : s[k] = closer }
    IN  IF ks = { } THEN 0 ELSE CHOOSE k \in ks : \A m \in ks : k <= m

\* The matches of the global regular expression in one left-to-right pass:
\* an opener, a body of at least one character ([\s\S]+?, lazy), and the first
\* closer of the same name after that; the scan resumes after each match.
RECURSIVE magicTagMatches_anyCloser(_, _)
magicTagMatches_anyCloser(s, i) ==
    LET ks == { k \in (i + 2)..Len(s) : s[k] \in CloseTags }
        k == CHOOSE x \in ks : \A m \in ks : x <= m
    IN  IF i > Len(s) THEN << >>
        ELSE IF s[i] \in OpenTags /\ ks # { }
        THEN << [ from |-> i, to |-> k, type |-> TagName(s[i]),
                  param |-> TagParam(s[i]), value |-> SubSeq(s, i + 1, k - 1) ] >>
             \o magicTagMatches_anyCloser(s, k + 1)
        ELSE magicTagMatches_anyCloser(s, i + 1)

RECURSIVE magicTagMatches(_, _)
magicTagMatches(s, i) ==
    LET closedAt(k) ==
            IF s[i] \in OpenTags /\ k # 0
            THEN << [ from |-> i, to |-> k, type |-> TagName(s[i]),
                      param |-> TagParam(s[i]), value |-> SubSeq(s, i + 1, k - 1) ] >>
                 \o magicTagMatches(s, k + 1)
            ELSE magicTagMatches(s, i + 1)
    IN  IF i > Len(s) THEN << >>
        ELSE closedAt(FirstAt(s, CloserOf(s[i]), i + 2))

magicTagRegExp(s) == magicTagMatches(s, 1)

\* String.prototype.replace over the matches ms with the replacements reps.
RECURSIVE Splice(_, _, _, _, _)
Splice(s, ms, reps, pos, n) ==
    IF n > Len(ms) THEN SubSeq(s, pos, Len(s))
    ELSE SubSeq(s, pos, ms[n].from - 1) \o reps[n]
         \o Splice(s, ms, reps, ms[n].to + 1, n + 1)

replace(s, ms, reps) == Splice(s, ms, reps, 1, 1)

\* A substitution that scans its own output again, until no tag is left.
RECURSIVE replaceDollar3_rescanned(_)
replaceDollar3_rescanned(s) ==
    LET again(ms) ==
            IF ms = << >> THEN s
            ELSE replaceDollar3_rescanned(
                    replace(s, ms, [ n \in 1..Len(ms) |-> ms[n].value ]))
    IN  again(magicTagRegExp(s))

\* msg.replace(magicTagRegExp, '$3') and msg.replace(magicTagRegExp, '$2')
replaceDollar3(s) ==
    LET bodies(ms) == replace(s, ms, [ n \in 1..Len(ms) |-> ms[n].value ])
    IN  bodies(magicTagRegExp(s))

replaceDollar2(s) ==
    LET params(ms) == replace(s, ms, [ n \in 1..Len(ms) |-> << ms[n].param >> ])
    IN  params(magicTagRegExp(s))

-----------------------------------------------------------------------------
(* What the process is observed to do: one record per observable step.     *)

NoEvent ==
    [ op |-> "", by |-> 0, level |-> "", msg |-> Undef, meta |-> NoMeta,
      fn |-> "", path |-> << >>, text |-> << >> ]

\* The result of running a piece of code: the value it returned (text), the
\* observable steps it took (evs), and whether it threw instead of returning.
Ok(text, evs) == [ raised |-> FALSE, text |-> text, evs |-> evs ]
Threw(evs) == [ raised |-> TRUE, text |-> << >>, evs |-> evs ]

-----------------------------------------------------------------------------
(* chalk and cli-highlight (third-party), as far as the loggers use them.  *)

\* Style builders of the chalk namespace used by the code or by the inputs.
ChalkStyles ==
    { "green", "bold", "red", "blue", "cyan", "yellow", "magenta",
      "blueBright", "magentaBright", "yellowBright", "gray" }

\* Properties of the chalk namespace (and of every builder) that are not
\* functions: chalk.level is a number.
ChalkData == { "level" }

\* A chalk style applied to a text: escape codes around it when colours are on.
Style(name, text) ==
    IF supportsColor THEN << "ESC[" \o name >> \o text \o << "ESC[0" >> ELSE text

RECURSIVE ApplyStyles(_, _)
ApplyStyles(styles, text) ==
    IF styles = << >> THEN text
    ELSE ApplyStyles(SubSeq(styles, 1, Len(styles) - 1),
                     Style(styles[Len(styles)], text))

\* param.split('-')
SplitHyphen(param) ==
    CASE param = "green-bold" -> << "green", "bold" >>
      [] param = "green-nope-bold" -> << "green", "nope", "bold" >>
      [] param = "level-bold" -> << "level", "bold" >>
      [] OTHER -> << param >>

\* Languages the highlighter knows; any other language makes highlight throw.
KnownLanguages == { "sql", "js", "yml" }

\* ColorfulConsoleLogger.theme: the colour of a lexeme in a language.
ThemeColour(tok, language) ==
    CASE language = "sql" /\ tok \in { "SELECT", "FROM" } -> "blueBright"
      [] language = "js" /\ tok \in { "function", "class" } -> "blueBright"
      [] language = "yml" /\ tok \in { "true", "false", "null" } -> "yellowBright"
      [] OTHER -> ""

\* highlight(code, { language, theme }) for a known language.
highlight(code, language) ==
    Flatten([ i \in 1..Len(code) |->
                IF ThemeColour(code[i], language) = ""
                THEN << code[i] >>
                ELSE Style(ThemeColour(code[i], language), << code[i] >>) ])

-----------------------------------------------------------------------------
(* ColorfulConsoleLogger.magics  (src/src/logger.lambda.ts:124-136)        *)

\* The reduce over the segments: c is the chain built so far (callable), or a
\* value that is no chalk builder.  `str in c` throws when c is a number.
RECURSIVE chalkReduce(_, _, _)
chalkReduce(c, segs, evs) ==
    IF segs = << >> THEN [ raised |-> FALSE, c |-> c, evs |-> evs ]
    ELSE IF ~c.callable THEN [ raised |-> TRUE, c |-> c, evs |-> evs ]
    ELSE IF Head(segs) \in ChalkStyles
    THEN chalkReduce([ c EXCEPT !.styles = Append(@, Head(segs)) ], Tail(segs), evs)
    ELSE IF Head(segs) \in ChalkData
    THEN chalkReduce([ callable |-> FALSE, styles |-> << >> ], Tail(segs), evs)
    ELSE chalkReduce(c, Tail(segs),
                     Append(evs, [ NoEvent EXCEPT !.op = "console.info",
                                                  !.text = << "Unknown chalk function: ", Head(segs) >> ]))

magics_chalk(param, value) ==
    LET call(f) ==
            IF f.raised \/ ~f.c.callable
            THEN Threw(f.evs)
            ELSE Ok(ApplyStyles(f.c.styles, value), f.evs)
    IN  call(chalkReduce([ callable |-> TRUE, styles |-> << >> ], SplitHyphen(param), << >>))

magics_hl(language, code) ==
    IF language \in KnownLanguages THEN Ok(highlight(code, language), << >>) ELSE Threw(<< >>)

\* ColorfulConsoleLogger.magics[type](param, value), observed as one step.
magics(type, param, value) ==
    LET r == IF type = "hl" THEN magics_hl(param, value) ELSE magics_chalk(param, value)
    IN  [ r EXCEPT !.evs = << [ NoEvent EXCEPT !.op = "magics", !.fn = type,
                                               !.text = value ] >> \o @ ]

-----------------------------------------------------------------------------
(* ColorfulConsoleLogger.handleHighlight  (src/src/logger.lambda.ts:212-237) *)

Numeral == << "0", "1", "2", "3", "4", "5", "6", "7", "8", "9" >>

\* `<TO-BE-REPLACED-${n}>`
Placeholder(n) == "<TO-BE-REPLACED-" \o Numeral[n + 1] \o ">"

\* The lexemes toBeReplacedRegExp = /<TO-BE-REPLACED-(\d+)>/g matches.
PlaceholderIndices == 0..9
IsPlaceholder(tok) == \E n \in PlaceholderIndices : tok = Placeholder(n)
PlaceholderIndex(tok) == CHOOSE n \in PlaceholderIndices : tok = Placeholder(n)

\* The callback of the first replace, match after match: each tag is rendered
\* by its magic and pushed to toBeHighlighted; a throwing magic ends the call.
RECURSIVE renderTags(_, _, _, _)
renderTags(ms, n, toBeHighlighted, evs) ==
    LET push(r) ==
            IF r.raised
            THEN [ raised |-> TRUE, toBeHighlighted |-> toBeHighlighted,
                   evs |-> evs \o r.evs ]
            ELSE renderTags(ms, n + 1, Append(toBeHighlighted, r.text), evs \o r.evs)
    IN  IF n > Len(ms)
        THEN [ raised |-> FALSE, toBeHighlighted |-> toBeHighlighted, evs |-> evs ]
        ELSE push(magics(ms[n].type, ms[n].param, ms[n].value))

handleHighlight(str) ==
    LET back(toBeHighlighted, tok) ==
            IF ~IsPlaceholder(tok) THEN << tok >>
            ELSE IF PlaceholderIndex(tok) < Len(toBeHighlighted)
            THEN toBeHighlighted[PlaceholderIndex(tok) + 1]
            ELSE << "undefined" >>
        reinsert(r, partiallyHighlighted) ==
            IF r.raised THEN Threw(r.evs)
            ELSE IF Len(r.toBeHighlighted) = 0 THEN Ok(partiallyHighlighted, r.evs)
            ELSE Ok(Flatten([ i \in 1..Len(partiallyHighlighted) |->
                                back(r.toBeHighlighted, partiallyHighlighted[i]) ]), r.evs)
        rewrite(ms) ==
            reinsert(renderTags(ms, 1, << >>, << >>),
                     highlight(replace(str, ms, [ n \in 1..Len(ms) |->
                                                    << Placeholder(n - 1) >> ]), "yml"))
    IN  rewrite(magicTagRegExp(str))

-----------------------------------------------------------------------------
(* js-yaml dump with TextBasedLogger.yamlDumpOptions                       *)
(* (src/unnamed/part_003:146-167), for objects of scalars and of Errors.   *)

\* s.split('\n')
RECURSIVE SplitLines(_)
SplitLines(s) ==
    LET k == FirstAt(s, "\n", 1)
    IN  IF k = 0 THEN << s >>
        ELSE << SubSeq(s, 1, k - 1) >> \o SplitLines(SubSeq(s, k + 1, Len(s)))

\* lines.join('\n')
RECURSIVE JoinLines(_)
JoinLines(ls) ==
    IF Len(ls) = 1 THEN ls[1] ELSE ls[1] \o << "\n" >> \o JoinLines(Tail(ls))

\* The replacer: a bigint becomes its decimal string, which is written in
\* double quotes as every string that reads as a number; other scalars pass.
\* skipInvalid: a value YAML cannot represent (undefined) drops its field.
Representable(v) == v.t # "undefined"

\* functionHeader (src/dist/functionHeader.js).  The source text of a function
\* is a sequence of lexemes: words, white space, and the punctuation below.
\* A word of one character is a letter or a digit; every other word has two
\* characters or more.

Punctuation == { "(", ")", "{", "}", ",", "=>", "...", "=", "+", ";", "*", "." }

At(s, i) == IF i \in 1..Len(s) THEN s[i] ELSE ""

\* \w+ on a whole lexeme, and \w+\w+ inside one lexeme.
Word(tok) == tok # "" /\ tok \notin WhiteSpace \cup Punctuation
LongWord(tok) ==
    Word(tok) /\ tok \notin Range(LowerCaseLetters) \cup Range(UpperCaseLetters)
                              \cup Range(Numeral)

\* \s* from position i: the first position at or after i that holds no white
\* space.
RECURSIVE skipSpace(_, _)
skipSpace(s, i) == IF At(s, i) \in WhiteSpace THEN skipSpace(s, i + 1) ELSE i

\* [^)]*\) from position i: the position of the first ")" at or after i, or 0.
closeParen(s, i) == FirstAt(s, ")", i)

\* (?:\s*\{\s*})? after position i: the position the match ends at.
emptyBody(s, i) ==
    LET open(j) == IF At(s, j) = "{" /\ At(s, skipSpace(s, j + 1)) = "}"
                   THEN skipSpace(s, j + 1) ELSE i
    IN  open(skipSpace(s, i + 1))

\* \([^)]*\)(?:\s*\{\s*})? at position i: where the match ends, or 0.
parameters(s, i) ==
    LET close(c) == IF c = 0 THEN 0 ELSE emptyBody(s, c)
    IN  IF At(s, i) = "(" THEN close(closeParen(s, i + 1)) ELSE 0

NoMatch == << >>

\* /^(?:async\s*)?function\s*(?:\w+\s*)?\([^)]*\)(?:\s*\{\s*})?/
MATCH_FUNCTION_HEADER(source) ==
    LET upTo(e) == IF e = 0 THEN NoMatch ELSE SubSeq(source, 1, e)
        named(q) == IF Word(At(source, q))
                    THEN parameters(source, skipSpace(source, q + 1))
                    ELSE parameters(source, q)
        keyword(p) == IF At(source, p) = "function"
                      THEN upTo(named(skipSpace(source, p + 1)))
                      ELSE NoMatch
    IN  IF At(source, 1) = "async" THEN keyword(skipSpace(source, 2)) ELSE keyword(1)

\* /^(?:async|static\s*)*\w+\s*\w+\s*\([^)]*\)(?:\s*\{\s*})?/ : \w+\s*\w+ is two
\* words, or one word of two characters or more.
RECURSIVE skipStatic(_, _)
skipStatic(s, i) ==
    IF At(s, i) = "static" /\ Word(At(s, skipSpace(s, i + 1)))
    THEN skipStatic(s, skipSpace(s, i + 1)) ELSE i

MATCH_METHOD_HEADER(source) ==
    LET upTo(e) == IF e = 0 THEN NoMatch ELSE SubSeq(source, 1, e)
        second(p, q) ==
            IF q > p + 1 /\ Word(At(source, q))
            THEN parameters(source, skipSpace(source, q + 1))
            ELSE IF LongWord(At(source, p)) THEN parameters(source, q)
            ELSE 0
        first(p) == IF Word(At(source, p)) THEN second(p, skipSpace(source, p + 1)) ELSE 0
    IN  upTo(first(skipStatic(source, 1)))

\* /^\s*\(?[^)]*\)?\s*=>(?:\s*\{(?:\s*})?)?/ : the => that follows the first ")"
\* and white space, or else the last => before the first ")".
MATCH_ARROW_FUNCTION_HEADER(source) ==
    LET body(e) ==
            LET open(j) ==
                    IF At(source, j) # "{" THEN e
                    ELSE IF At(source, skipSpace(source, j + 1)) = "}"
                    THEN skipSpace(source, j + 1)
                    ELSE j
            IN  SubSeq(source, 1, open(skipSpace(source, e + 1)))
        before(f) ==
            LET arrows == { e \in 1..(f - 1) : source[e] = "=>" }
            IN  IF arrows = { } THEN NoMatch
                ELSE body(CHOOSE e \in arrows : \A d \in arrows : d <= e)
        around(f) ==
            IF f = 0 THEN before(Len(source) + 1)
            ELSE IF At(source, skipSpace(source, f + 1)) = "=>"
            THEN body(skipSpace(source, f + 1))
            ELSE before(f)
    IN  around(closeParen(source, 1))

\* /^class\s+\w+(?:\s*\{\s*})?/
MATCH_CLASS_HEADER(source) ==
    LET name(p) == IF Word(At(source, p)) THEN SubSeq(source, 1, emptyBody(source, p))
                   ELSE NoMatch
    IN  IF At(source, 1) = "class" /\ At(source, 2) \in WhiteSpace
        THEN name(skipSpace(source, 2))
        ELSE NoMatch

\* /constructor\s*\([^)]*\)(?:\s*\{\s*})?/, anywhere in the source.
MATCH_CONSTRUCTOR_HEADER(source) ==
    LET hits == { i \in 1..Len(source) :
                    /\ source[i] = "constructor"
                    /\ parameters(source, skipSpace(source, i + 1)) # 0 }
        from(i) == SubSeq(source, i, parameters(source, skipSpace(source, i + 1)))
    IN  IF hits = { } THEN NoMatch
        ELSE from(CHOOSE i \in hits : \A j \in hits : i <= j)

\* .replace(/\s+/g, ' ')
RECURSIVE collapseSpace(_)
collapseSpace(s) ==
    IF s = << >> THEN << >>
    ELSE IF Head(s) \in WhiteSpace
    THEN << " " >> \o collapseSpace(SubSeq(s, skipSpace(s, 1), Len(s)))
    ELSE << Head(s) >> \o collapseSpace(Tail(s))

\* prettify that trims and leaves the white space inside as it is.
prettify_noCollapse(source) == trim(source)

\* The replacements of prettify after the first, in one pass over a text in
\* which every run of white space is one space; prev is the lexeme before
\* s.  A space is removed between "{" and "}" and between "(" and ")"
\* (/\{\s+}/g, /\(\s+\)/g), before ")" (/\s+\)/g) and on either side of ","
\* (/\s*,\s*/g), and every "," is followed by one space;
\* .replace(/\s+\{/g, ' {') and .replace(/\s+\(/g, ' (') change nothing.
RECURSIVE tidy(_, _)
tidy(s, prev) ==
    IF s = << >> THEN << >>
    ELSE IF Head(s) = ","
    THEN << ",", " " >> \o tidy(Tail(s), ",")
    ELSE IF /\ Head(s) = " "
            /\ \/ prev = "{" /\ At(s, 2) = "}"
               \/ At(s, 2) = ")"
               \/ prev = "," \/ At(s, 2) = ","
    THEN tidy(Tail(s), " ")
    ELSE << Head(s) >> \o tidy(Tail(s), Head(s))

\* prettify (src/dist/functionHeader.js:30-40)
prettify(source) == trim(tidy(collapseSpace(source), ""))

Ellipsis == << " ", "{", " ", "...", " ", "}" >>

\* functionHeader (src/dist/functionHeader.js:75-98); source is
\* Function.prototype.toString.call(fn).
functionHeader(source) ==
    LET braced(matched) ==
            IF "{" \in Range(matched) THEN prettify(matched)
            ELSE prettify(matched \o Ellipsis)
        arrow(matched) ==
            prettify(IF "{" \in Range(matched)
                     THEN IF "}" \in Range(matched) THEN matched
                          ELSE matched \o << " ", "...", " ", "}" >>
                     ELSE matched \o << " ", "..." >>)
        class(matched, subMatched) ==
            IF subMatched # NoMatch
            THEN prettify(IF "{" \in Range(subMatched)
                          THEN matched \o << " ", "{", " " >> \o subMatched \o << " ", "}" >>
                          ELSE matched \o << " ", "{", " " >> \o subMatched
                               \o Ellipsis \o << " ", "}" >>)
            ELSE braced(matched)
        header(matchFunction, matchMethod, matchArrowFunction, matchClass,
               matchConstructor) ==
            IF matchFunction # NoMatch THEN braced(matchFunction)
            ELSE IF matchMethod # NoMatch THEN braced(matchMethod)
            ELSE IF matchArrowFunction # NoMatch THEN arrow(matchArrowFunction)
            ELSE IF matchClass # NoMatch THEN class(matchClass, matchConstructor)
            ELSE prettify(<< "function", "(", "...", ")" >> \o Ellipsis)
    IN  header(MATCH_FUNCTION_HEADER(source), MATCH_METHOD_HEADER(source),
               MATCH_ARROW_FUNCTION_HEADER(source), MATCH_CLASS_HEADER(source),
               MATCH_CONSTRUCTOR_HEADER(source))

\* What the replacer returns for an Error (src/unnamed/part_003:161-165): a
\* plain object of the properties Object.getOwnPropertyNames lists.  An Error
\* value holds its properties in s as records [ k, v, own ]; own is FALSE
\* for a property that comes from the prototype chain.
ownProperties(value) ==
    LET plain(props) == [ i \in 1..Len(props) |-> [ k |-> props[i].k, v |-> props[i].v ] ]
    IN  plain(SelectSeq(value.s, LAMBDA prop : prop.own))

\* One `key: value` entry.  A string with a line break is written as a block
\* literal whose non-empty lines are indented by two spaces; the object the
\* replacer makes of an Error is written as a nested mapping, every line of
\* it indented by two spaces.
RECURSIVE dumpField(_)
dumpField(f) ==
    LET literal(lines) ==
            << f.k, ":", " ", "|-", "\n" >>
            \o Flatten([ i \in 1..Len(lines) |->
                           (IF lines[i] = << >> THEN << >> ELSE << " ", " " >>)
                           \o lines[i] \o << "\n" >> ])
        nested(lines) ==
            << f.k, ":", "\n" >>
            \o Flatten([ i \in 1..Len(lines) |->
                           (IF lines[i] = << >> THEN << >> ELSE << " ", " " >>)
                           \o lines[i] \o << "\n" >> ])
        mapping(kept) ==
            IF kept = << >> THEN << f.k, ":", " ", "{}", "\n" >>
            ELSE nested(SplitLines(trimEnd(
                     Flatten([ i \in 1..Len(kept) |-> dumpField(kept[i]) ]))))
    IN  IF f.v.t = "error"
        THEN mapping(SelectSeq(ownProperties(f.v), LAMBDA g : Representable(g.v)))
        ELSE IF f.v.t = "function"
        THEN << f.k, ":", " ", "<hl js>" >> \o functionHeader(f.v.s) \o << "</hl>", "\n" >>
        ELSE IF f.v.t = "string" /\ "\n" \in Range(f.v.s)
        THEN literal(SplitLines(f.v.s))
        ELSE IF f.v.t = "bigint"
        THEN << f.k, ":", " ", "\"" >> \o f.v.s \o << "\"", "\n" >>
        ELSE << f.k, ":", " " >> \o f.v.s \o << "\n" >>

dump(fields) ==
    LET entries(kept) ==
            IF kept = << >> THEN << "{}", "\n" >>
            ELSE Flatten([ i \in 1..Len(kept) |-> dumpField(kept[i]) ])
    IN  entries(SelectSeq(fields, LAMBDA f : Representable(f.v)))

\* dump(obj, ...).split('\n').map((v) => `  ${v}`).join('\n').trimEnd()
dumpIndented_noIndent(fields) == trimEnd(dump(fields))

dumpIndented(fields) ==
    LET indent(lines) ==
            trimEnd(JoinLines([ i \in 1..Len(lines) |-> << " ", " " >> \o lines[i] ]))
    IN  indent(SplitLines(dump(fields)))

-----------------------------------------------------------------------------
(* The logger classes.  A logger instance is a record                      *)
(*   [ kind, name, minLevel, loggers ]                                     *)
(* kind is the class; loggers are the children of a DelegateLogger, as     *)
(* indices into the variable loggers.  "ConsoleLogger0" is the             *)
(* ConsoleLogger of src/src/logger.delegate.ts:75-228, which extends       *)
(* Logger directly and overrides log itself: it has no threshold.          *)

TextKinds == { "ConsoleLogger", "ColorfulConsoleLogger", "FileLogger" }
Kinds == TextKinds \cup { "ConsoleLogger0", "LambdaLogger", "DelegateLogger" }

\* n.toString() for 0 <= n <= 99
toString(n) ==
    IF n < 10 THEN << Numeral[n + 1] >>
    ELSE << Numeral[(n \div 10) + 1], Numeral[(n % 10) + 1] >>

RECURSIVE padStart(_, _, _)
padStart(s, targetLength, padString) ==
    IF Len(s) >= targetLength THEN s
    ELSE padStart(<< padString >> \o s, targetLength, padString)

\* level.toUpperCase()
toUpperCase(level) ==
    CASE level = "error" -> "ERROR" [] level = "warn" -> "WARN"
      [] level = "info" -> "INFO" [] level = "debug" -> "DEBUG"

\* TextBasedLogger.messagePrefix  (src/unnamed/part_003:82-96)
TextBasedLogger_messagePrefix_noPad(name, level, now) ==
    << "[" >> \o toString(now.h) \o << ":" >> \o toString(now.m)
    \o << ":" >> \o toString(now.s) \o << "]", " ", "[" >> \o name
    \o << "/", toUpperCase(level), "]" >>

TextBasedLogger_messagePrefix(name, level, now) ==
    << "[" >> \o padStart(toString(now.h), 2, "0")
    \o << ":" >> \o padStart(toString(now.m), 2, "0")
    \o << ":" >> \o padStart(toString(now.s), 2, "0")
    \o << "]", " ", "[" >> \o name \o << "/", toUpperCase(level), "]" >>

\* ColorfulConsoleLogger.levelColor  (src/src/logger.lambda.ts:269-274)
levelColor(level) ==
    CASE level = "debug" -> "cyan" [] level = "info" -> "blue"
      [] level = "warn" -> "yellow" [] level = "error" -> "red"

\* ColorfulConsoleLogger.messagePrefix  (src/src/logger.lambda.ts:99-113)
ColorfulConsoleLogger_messagePrefix(name, level, now) ==
    << "[" >> \o Style("blueBright", padStart(toString(now.h), 2, "0"))
    \o << ":" >> \o Style("blueBright", padStart(toString(now.m), 2, "0"))
    \o << ":" >> \o Style("blueBright", padStart(toString(now.s), 2, "0"))
    \o << "]", " ", "[" >> \o Style("magenta", name)
    \o << "/" >> \o Style(levelColor(level), << toUpperCase(level) >>) \o << "]" >>

messagePrefix(kind, name, level, now) ==
    IF kind = "ColorfulConsoleLogger"
    THEN ColorfulConsoleLogger_messagePrefix(name, level, now)
    ELSE TextBasedLogger_messagePrefix(name, level, now)

\* TextBasedLogger.handleMessage  (src/unnamed/part_003:117-119)
TextBasedLogger_handleMessage(level, msg) == Ok(replaceDollar3(msg), << >>)

\* ConsoleLogger.handleMessage of src/src/logger.delegate.ts:167-169
ConsoleLogger0_handleMessage(level, msg) == Ok(replaceDollar2(msg), << >>)

\* ColorfulConsoleLogger.handleMessage  (src/src/logger.lambda.ts:154-157)
ColorfulConsoleLogger_handleMessage(level, msg) ==
    LET colour(highlighted) ==
            IF highlighted.raised THEN highlighted
            ELSE Ok(Style(levelColor(level), highlighted.text), highlighted.evs)
    IN  colour(handleHighlight(msg))

handleMessage(kind, level, msg) ==
    CASE kind = "ColorfulConsoleLogger" -> ColorfulConsoleLogger_handleMessage(level, msg)
      [] kind = "ConsoleLogger0" -> ConsoleLogger0_handleMessage(level, msg)
      [] OTHER -> TextBasedLogger_handleMessage(level, msg)

\* TextBasedLogger.handleMetadata  (src/unnamed/part_003:129-136)
TextBasedLogger_handleMetadata(obj) == Ok(replaceDollar3(dumpIndented(obj)), << >>)

\* ConsoleLogger.handleMetadata of src/src/logger.delegate.ts:179-186
ConsoleLogger0_handleMetadata(obj) == Ok(replaceDollar2(dumpIndented(obj)), << >>)

\* ColorfulConsoleLogger.handleMetadata  (src/src/logger.lambda.ts:181-196)
ColorfulConsoleLogger_handleMetadata(obj) == handleHighlight(dumpIndented(obj))

handleMetadata(kind, obj) ==
    CASE kind = "ColorfulConsoleLogger" -> ColorfulConsoleLogger_handleMetadata(obj)
      [] kind = "ConsoleLogger0" -> ConsoleLogger0_handleMetadata(obj)
      [] OTHER -> TextBasedLogger_handleMetadata(obj)

\* The text a text logger hands to its output: the body of
\* TextBasedLogger.logInternal (src/unnamed/part_003:59-71) and of
\* ConsoleLogger.log (src/src/logger.delegate.ts:109-121) up to the write.
renderText(kind, name, level, msg, meta, now) ==
    LET block(prefix, md) ==
            IF md.raised THEN md
            ELSE Ok(prefix \o << "\n" >> \o md.text, md.evs)
        lineAndBlock(prefix, hm, md) ==
            IF hm.raised THEN hm
            ELSE IF md.raised THEN Threw(hm.evs \o md.evs)
            ELSE Ok(prefix \o << " " >> \o hm.text \o << "\n" >> \o md.text,
                    hm.evs \o md.evs)
        line(prefix, hm) ==
            IF hm.raised THEN hm
            ELSE Ok(prefix \o << " " >> \o hm.text, hm.evs)
    IN  IF msg.t # "string"
        THEN block(messagePrefix(kind, name, level, now),
                   handleMetadata(kind, IF meta.present
                                        THEN SpreadMsg(msg, meta.fields)
                                        ELSE << [ k |-> "msg", v |-> msg ] >>))
        ELSE IF meta.present
        THEN lineAndBlock(messagePrefix(kind, name, level, now),
                          handleMessage(kind, level, msg.s),
                          handleMetadata(kind, meta.fields))
        ELSE line(messagePrefix(kind, name, level, now),
                  handleMessage(kind, level, msg.s))

-----------------------------------------------------------------------------
(* LambdaLogger  (src/src/logger.console.ts:79-142)                        *)

\* Object.assign(target, source) on field lists: a key already present keeps
\* its position and takes the new value, a new key is appended.
RECURSIVE assign(_, _)
assign(target, source) ==
    IF source = << >> THEN target
    ELSE LET f == Head(source)
             put == IF HasKey(target, f.k)
                    THEN [ i \in 1..Len(target) |->
                             IF target[i].k = f.k THEN f ELSE target[i] ]
                    ELSE Append(target, f)
         IN  assign(put, Tail(source))

\* JSON.stringify of a string: quoted, a line break escaped.
jsonString(s) ==
    << "\"" >> \o [ i \in 1..Len(s) |-> IF s[i] = "\n" THEN "\\n" ELSE s[i] ] \o << "\"" >>

\* JSON.stringify of a flat object: fields whose value is undefined are
\* left out.  The _tags array is written by stringifyField.
stringifyField(f) ==
    jsonString(<< f.k >>) \o << ":" >>
    \o (CASE f.v.t = "string" -> jsonString(f.v.s)
          [] f.v.t = "array" -> << "[" >> \o jsonString(f.v.s) \o << "]" >>
          [] OTHER -> f.v.s)

RECURSIVE joinComma(_)
joinComma(parts) ==
    IF parts = << >> THEN << >>
    ELSE IF Len(parts) = 1 THEN parts[1]
    ELSE parts[1] \o << "," >> \o joinComma(Tail(parts))

\* JSON.stringify throws a TypeError on a BigInt value.
stringifyThrows(fields) == \E i \in 1..Len(fields) : fields[i].v.t = "bigint"

stringify(fields) ==
    LET kept == SelectSeq(fields, LAMBDA f : f.v.t # "undefined")
    IN  << "{" >> \o joinComma([ i \in 1..Len(kept) |-> stringifyField(kept[i]) ]) \o << "}" >>

\* LambdaLogger.logInternal  (src/src/logger.console.ts:119-141)
LambdaLogger_logInternal(self, name, level, msg, meta) ==
    LET logObj == << [ k |-> "_logLevel", v |-> [ t |-> "string", s |-> << level >> ] ],
                     [ k |-> "_tags", v |-> [ t |-> "array", s |-> name ] ],
                     [ k |-> "msg", v |-> IF msg.t = "string" THEN msg
                                          ELSE [ t |-> "undefined", s |-> << >> ] ] >>
        write(full) ==
            IF stringifyThrows(full) THEN Threw(<< >>)
            ELSE Ok(<< >>, << [ NoEvent EXCEPT !.op = "console.log", !.by = self,
                                               !.text = stringify(full) ] >>)
    IN  IF lambdaLog
        THEN IF msg.t # "string"
             THEN Ok(<< >>, << [ NoEvent EXCEPT !.op = "lambdaLog.log", !.by = self,
                         !.level = level, !.msg = Undef,
                         !.meta = Meta(IF meta.present THEN SpreadMsg(msg, meta.fields)
                                       ELSE << [ k |-> "msg", v |-> msg ] >>),
                         !.text = name ] >>)
             ELSE Ok(<< >>, << [ NoEvent EXCEPT !.op = "lambdaLog.log", !.by = self,
                         !.level = level, !.msg = msg,
                         !.meta = IF meta.present THEN meta ELSE Meta(<< >>),
                         !.text = name ] >>)
        ELSE write(IF msg.t # "string"
                   THEN assign(assign(logObj, << [ k |-> "msg", v |-> msg ] >>), meta.fields)
                   ELSE IF meta.present THEN assign(logObj, meta.fields)
                   ELSE logObj)

-----------------------------------------------------------------------------
(* The output functions of the text loggers.                               *)

\* ConsoleLogger.writeOutput  (src/src/logger.console.ts:34-36)
ConsoleLogger_writeOutput(self, message) ==
    Ok(<< >>, << [ NoEvent EXCEPT !.op = "stdout", !.by = self, !.fn = stdout,
                                  !.text = message ] >>)

\* ensureFilePath without the default: the path stays null when LOG4JS_FILE is
\* not set.
ensureFilePath_noDefault ==
    IF env.LOG4JS_FILE = undefined \/ env.LOG4JS_FILE = << >>
    THEN null
    ELSE env.LOG4JS_FILE

\* process.env.LOG4JS_FILE || 'latest.log'  (src/src/logger.file.ts:38-40)
ensureFilePath ==
    IF env.LOG4JS_FILE = undefined \/ env.LOG4JS_FILE = << >>
    THEN << "latest.log" >>
    ELSE env.LOG4JS_FILE

\* A writeOutput that keeps the path stored by the last ensureFilePath.
FileLogger_writeOutput_cached(self, message, fsOk) ==
    LET ev == [ NoEvent EXCEPT !.op = "writeFile", !.by = self, !.fn = writeFile,
                               !.path = currentFilePath,
                               !.text = message \o << "\n" >> ]
    IN  IF currentFilePath = null THEN Ok(<< >>, << >>)
        ELSE IF writeFile = "fs.appendFileSync" /\ ~fsOk THEN Threw(<< ev >>)
        ELSE Ok(<< >>, << ev >>)

\* FileLogger.writeOutput  (src/src/logger.file.ts:49-54).  fsOk tells whether
\* fs.appendFileSync succeeds at this moment; it throws otherwise.
FileLogger_writeOutput(self, message, fsOk) ==
    LET ev == [ NoEvent EXCEPT !.op = "writeFile", !.by = self, !.fn = writeFile,
                               !.path = ensureFilePath,
                               !.text = message \o << "\n" >> ]
    IN  IF ensureFilePath = null THEN Ok(<< >>, << >>)
        ELSE IF writeFile = "fs.appendFileSync" /\ ~fsOk THEN Threw(<< ev >>)
        ELSE Ok(<< >>, << ev >>)

\* TextBasedLogger.logInternal (src/unnamed/part_003:59-71): render, then write.
TextBasedLogger_logInternal(self, l, level, msg, meta, now, fsOk) ==
    LET write(r) ==
            IF r.raised THEN r
            ELSE [ (IF l.kind = "FileLogger"
                    THEN FileLogger_writeOutput(self, r.text, fsOk)
                    ELSE ConsoleLogger_writeOutput(self, r.text))
                   EXCEPT !.evs = r.evs \o @ ]
    IN  write(renderText(l.kind, l.name, level, msg, meta, now))

\* ConsoleLogger.log of src/src/logger.delegate.ts:109-121: the override of
\* log that renders and writes to ConsoleLogger.stdout at once.
ConsoleLogger0_log(self, l, level, msg, meta, now) ==
    LET write(r) ==
            IF r.raised THEN r
            ELSE Ok(<< >>, r.evs \o << [ NoEvent EXCEPT !.op = "stdout", !.by = self,
                                           !.fn = stdout, !.text = r.text ] >>)
    IN  write(renderText(l.kind, l.name, level, msg, meta, now))

-----------------------------------------------------------------------------
(* Logger.log and DelegateLogger.logInternal                               *)

RECURSIVE Logger_log(_, _, _, _, _, _)
RECURSIVE forEachLogger(_, _, _, _, _, _)

\* DelegateLogger.logInternal (src/src/logger.delegate.ts:49-53): the for-of
\* loop over this.loggers; an exception leaves the loop.
forEachLogger(children, level, msg, meta, now, fsOk) ==
    LET next(r) ==
            IF r.raised THEN r
            ELSE [ forEachLogger(Tail(children), level, msg, meta, now, fsOk)
                   EXCEPT !.evs = r.evs \o @ ]
    IN  IF children = << >> THEN Ok(<< >>, << >>)
        ELSE next(Logger_log(Head(children), level, msg, meta, now, fsOk))

logInternal(self, level, msg, meta, now, fsOk) ==
    LET l == loggers[self]
        r == CASE l.kind = "DelegateLogger" ->
                    forEachLogger(l.loggers, level, msg, meta, now, fsOk)
               [] l.kind = "LambdaLogger" ->
                    LambdaLogger_logInternal(self, l.name, level, msg, meta)
               [] OTHER ->
                    TextBasedLogger_logInternal(self, l, level, msg, meta, now, fsOk)
    IN  [ r EXCEPT !.evs = << [ NoEvent EXCEPT !.op = "logInternal", !.by = self,
                                 !.level = level, !.msg = msg, !.meta = meta ] >> \o @ ]

Logger_log_rereadsEnv(self, level, msg, meta, now, fsOk) ==
    LET enter == [ NoEvent EXCEPT !.op = "log", !.by = self, !.level = level,
                                  !.msg = msg, !.meta = meta ]
        leave(r) == [ NoEvent EXCEPT !.op = IF r.raised THEN "throw" ELSE "return",
                                     !.by = self ]
        around(r) == [ r EXCEPT !.evs = << enter >> \o @ \o << leave(r) >> ]
    IN  around(IF loggers[self].kind = "ConsoleLogger0"
               THEN ConsoleLogger0_log(self, loggers[self], level, msg, meta, now)
               ELSE IF shouldLog(level, parseLogLevel(env.LOG4JS_LEVEL))
               THEN logInternal(self, level, msg, meta, now, fsOk)
               ELSE Ok(<< >>, << >>))

\* Logger.log (src/src/logger.ts:87-91); ConsoleLogger.log of
\* src/src/logger.delegate.ts:109-121 overrides it and renders at once.
Logger_log(self, level, msg, meta, now, fsOk) ==
    LET enter == [ NoEvent EXCEPT !.op = "log", !.by = self, !.level = level,
                                  !.msg = msg, !.meta = meta ]
        leave(r) == [ NoEvent EXCEPT !.op = IF r.raised THEN "throw" ELSE "return",
                                     !.by = self ]
        around(r) == [ r EXCEPT !.evs = << enter >> \o @ \o << leave(r) >> ]
    IN  around(IF loggers[self].kind = "ConsoleLogger0"
               THEN ConsoleLogger0_log(self, loggers[self], level, msg, meta, now)
               ELSE IF shouldLog(level, loggers[self].minLevel)
               THEN logInternal(self, level, msg, meta, now, fsOk)
               ELSE Ok(<< >>, << >>))

-----------------------------------------------------------------------------
(* The operations of the program.                                          *)

\* Logger.constructor (src/src/logger.ts:29-31): the threshold is parsed from
\* the environment as it is now.  The Logger that ConsoleLogger0 extends
\* (src/dist/logger.js:20-22) stores the name only.
Logger_constructor(kind, name, children) ==
    [ kind |-> kind, name |-> name, loggers |-> children,
      minLevel |-> IF kind = "ConsoleLogger0" THEN "none"
                   ELSE parseLogLevel(env.LOG4JS_LEVEL) ]

missingLambdaLogWarning ==
    [ NoEvent EXCEPT !.op = "console.warn",
                     !.text = << "[log4js] lambda-log is not installed" >> ]

\* The constructors with a LambdaLogger that warns whenever lambda-log is
\* missing, whatever warnedAboutMissingLambdaLog says.
NewLogger_warnsEachTime(kind, name, max) ==
    /\ Len(loggers) < max
    /\ kind \in Kinds \ { "DelegateLogger" }
    /\ loggers' = Append(loggers, Logger_constructor(kind, name, << >>))
    /\ currentFilePath' = IF kind = "FileLogger" THEN ensureFilePath ELSE currentFilePath
    /\ IF kind = "LambdaLogger" /\ ~lambdaLog
       THEN /\ trace' = Append(trace, missingLambdaLogWarning)
            /\ warnedAboutMissingLambdaLog' = TRUE
       ELSE UNCHANGED << trace, warnedAboutMissingLambdaLog >>
    /\ UNCHANGED << env, supportsColor, lambdaLog, stdout, writeFile, calls >>

\* new ConsoleLogger(name), new ColorfulConsoleLogger(name), new FileLogger(name),
\* new LambdaLogger(name)
NewLogger(kind, name, max) ==
    /\ Len(loggers) < max
    /\ kind \in Kinds \ { "DelegateLogger" }
    /\ loggers' = Append(loggers, Logger_constructor(kind, name, << >>))
    /\ currentFilePath' = IF kind = "FileLogger" THEN ensureFilePath ELSE currentFilePath
    /\ IF kind = "LambdaLogger" /\ ~lambdaLog /\ ~warnedAboutMissingLambdaLog
       THEN /\ trace' = Append(trace, missingLambdaLogWarning)
            /\ warnedAboutMissingLambdaLog' = TRUE
       ELSE UNCHANGED << trace, warnedAboutMissingLambdaLog >>
    /\ UNCHANGED << env, supportsColor, lambdaLog, stdout, writeFile, calls >>

\* new DelegateLogger(name, loggers)
NewDelegateLogger(name, children, max) ==
    /\ Len(loggers) < max
    /\ Range(children) \subseteq 1..Len(loggers)
    /\ loggers' = Append(loggers, Logger_constructor("DelegateLogger", name, children))
    /\ UNCHANGED << env, supportsColor, lambdaLog, warnedAboutMissingLambdaLog,
                    stdout, writeFile, currentFilePath, trace, calls >>

\* The spellings pickLoggerForMode compares a mode with
\* (src/unnamed/part_002:68-87), and 'file' (part_002:64).
ModeWords ==
    [ lambda |-> << "l", "a", "m", "b", "d", "a" >>,
      aws |-> << "a", "w", "s" >>,
      cloudwatch |-> << "c", "l", "o", "u", "d", "w", "a", "t", "c", "h" >>,
      colorful |-> << "c", "o", "l", "o", "r", "f", "u", "l" >>,
      color |-> << "c", "o", "l", "o", "r" >>,
      plain |-> << "p", "l", "a", "i", "n" >>,
      text |-> << "t", "e", "x", "t" >>,
      plaintext |-> << "p", "l", "a", "i", "n", "t", "e", "x", "t" >>,
      cli |-> << "c", "l", "i" >>,
      console |-> << "c", "o", "n", "s", "o", "l", "e" >>,
      file |-> << "f", "i", "l", "e" >> ]

\* String.prototype.split(sep) for a one-character separator.
RECURSIVE split(_, _)
split(s, sep) ==
    IF \E i \in 1..Len(s) : s[i] = sep
    THEN LET cut(i) == << SubSeq(s, 1, i - 1) >> \o split(SubSeq(s, i + 1, Len(s)), sep)
         IN  cut(CHOOSE i \in 1..Len(s) : s[i] = sep /\ \A j \in 1..(i - 1) : s[j] # sep)
    ELSE << s >>

\* The modes of log4js without the trim of each token.
modes_noTrim ==
    IF env.LOG4JS_MODE = undefined THEN << >>
    ELSE split(toLowerCase(env.LOG4JS_MODE), ",")

\* process.env.LOG4JS_MODE?.toLowerCase().split(',').map(m => m.trim()) || []
\* (src/unnamed/part_002:62)
modes ==
    IF env.LOG4JS_MODE = undefined THEN << >>
    ELSE LET trimAll(ms) == [ i \in 1..Len(ms) |-> trim(ms[i]) ]
         IN  trimAll(split(toLowerCase(env.LOG4JS_MODE), ","))

\* src/unnamed/part_002:63-65
hasFileEnv == env.LOG4JS_FILE # undefined
hasFileMode == \E i \in 1..Len(modes) : modes[i] = ModeWords.file
shouldLogToFile == hasFileEnv \/ hasFileMode

\* chalk.supportsColor ? createColorfulConsoleLogger(name) : createConsoleLogger(name)
\* (src/unnamed/part_002:90, 93, 107, 114)
colorDetected == IF supportsColor THEN "ColorfulConsoleLogger" ELSE "ConsoleLogger"

\* pickLoggerForMode (src/unnamed/part_002:70-95): the class it constructs.
pickLoggerForMode(mode) ==
    LET cli(word) == ModeWords.cli \o << "/" >> \o word
    IN  CASE mode \in { ModeWords.lambda, ModeWords.aws, ModeWords.cloudwatch } ->
                "LambdaLogger"
          [] mode \in { cli(ModeWords.colorful), ModeWords.colorful,
                        cli(ModeWords.color), ModeWords.color } ->
                "ColorfulConsoleLogger"
          [] mode \in { cli(ModeWords.plain), ModeWords.plain, cli(ModeWords.text),
                        ModeWords.text, cli(ModeWords.plaintext), ModeWords.plaintext } ->
                "ConsoleLogger"
          [] mode \in { ModeWords.cli, ModeWords.console } -> colorDetected
          [] OTHER -> colorDetected

\* The consoleLogger of log4js that takes no account of AWS_LAMBDA_FUNCTION_NAME.
consoleLogger_noMarker ==
    LET nonFileModes == SelectSeq(modes, LAMBDA m : m # ModeWords.file)
    IN  IF Len(modes) > 0 /\ ~hasFileMode THEN pickLoggerForMode(modes[1])
        ELSE IF hasFileMode
             THEN IF Len(nonFileModes) > 0 THEN pickLoggerForMode(nonFileModes[1])
                  ELSE colorDetected
             ELSE colorDetected

\* The class of the consoleLogger of log4js (src/unnamed/part_002:97-116).  An
\* environment variable that is set to the empty string is falsy.
consoleLogger ==
    LET nonFileModes == SelectSeq(modes, LAMBDA m : m # ModeWords.file)
    IN  IF Len(modes) > 0 /\ ~hasFileMode THEN pickLoggerForMode(modes[1])
        ELSE IF hasFileMode
             THEN IF Len(nonFileModes) > 0 THEN pickLoggerForMode(nonFileModes[1])
                  ELSE colorDetected
             ELSE IF env.AWS_LAMBDA_FUNCTION_NAME \notin { undefined, << >> }
                  THEN "LambdaLogger"
                  ELSE colorDetected

\* log4js(name) (src/unnamed/part_002:61-125): constructs the console logger
\* and, when a file is asked for, a FileLogger and the DelegateLogger over
\* the two; what it returns is the logger constructed last.
log4js(name, max) ==
    LET n == Len(loggers)
        made == IF shouldLogToFile
                THEN << Logger_constructor(consoleLogger, name, << >>),
                        Logger_constructor("FileLogger", name, << >>),
                        Logger_constructor("DelegateLogger", name, << n + 1, n + 2 >>) >>
                ELSE << Logger_constructor(consoleLogger, name, << >>) >>
    IN  /\ n < max
        /\ loggers' = loggers \o made
        /\ currentFilePath' = IF shouldLogToFile THEN ensureFilePath ELSE currentFilePath
        /\ IF consoleLogger = "LambdaLogger" /\ ~lambdaLog /\ ~warnedAboutMissingLambdaLog
           THEN /\ trace' = Append(trace, missingLambdaLogWarning)
                /\ warnedAboutMissingLambdaLog' = TRUE
           ELSE UNCHANGED << trace, warnedAboutMissingLambdaLog >>
        /\ UNCHANGED << env, supportsColor, lambdaLog, stdout, writeFile, calls >>

\* process.env.LOG4JS_MODE = value
SetEnvMode(value) ==
    /\ env.LOG4JS_MODE # value
    /\ env' = [ env EXCEPT !.LOG4JS_MODE = value ]
    /\ UNCHANGED << supportsColor, lambdaLog, warnedAboutMissingLambdaLog, stdout,
                    writeFile, currentFilePath, loggers, trace, calls >>

\* process.env.LOG4JS_LEVEL = value
SetEnvLevel(value) ==
    /\ env.LOG4JS_LEVEL # value
    /\ env' = [ env EXCEPT !.LOG4JS_LEVEL = value ]
    /\ UNCHANGED << supportsColor, lambdaLog, warnedAboutMissingLambdaLog, stdout,
                    writeFile, currentFilePath, loggers, trace, calls >>

\* process.env.LOG4JS_FILE = value
SetEnvFile(value) ==
    /\ env.LOG4JS_FILE # value
    /\ env' = [ env EXCEPT !.LOG4JS_FILE = value ]
    /\ UNCHANGED << supportsColor, lambdaLog, warnedAboutMissingLambdaLog, stdout,
                    writeFile, currentFilePath, loggers, trace, calls >>

\* ConsoleLogger.stdout = f  (src/src/logger.console.ts:46)
SetStdout(f) ==
    /\ stdout # f
    /\ stdout' = f
    /\ UNCHANGED << env, supportsColor, lambdaLog, warnedAboutMissingLambdaLog,
                    writeFile, currentFilePath, loggers, trace, calls >>

\* FileLogger.writeFile = f  (src/src/logger.file.ts:68-70)
SetWriteFile(f) ==
    /\ writeFile # f
    /\ writeFile' = f
    /\ UNCHANGED << env, supportsColor, lambdaLog, warnedAboutMissingLambdaLog,
                    stdout, currentFilePath, loggers, trace, calls >>

\* logger.log(level, msg, meta), and logger.info/warn/error/debug(msg, meta),
\* which call it with their level (src/src/logger.ts:114-191).  The call runs
\* to completion: the program is single-threaded and synchronous.
Log(self, level, msg, meta, now, fsOk) ==
    LET done(r) ==
            /\ trace' = trace \o r.evs
            /\ currentFilePath' =
                  IF \E i \in 1..Len(r.evs) : r.evs[i].op = "writeFile"
                  THEN ensureFilePath ELSE currentFilePath
            /\ calls' = Append(calls, [ logger |-> self, level |-> level, msg |-> msg,
                                        meta |-> meta, now |-> now, raised |-> r.raised,
                                        from |-> Len(trace),
                                        to |-> Len(trace) + Len(r.evs) ])
    IN  /\ Len(calls) < MaxCalls
        /\ self \in 1..Len(loggers)
        /\ done(Logger_log(self, level, msg, meta, now, fsOk))
        /\ UNCHANGED << env, supportsColor, lambdaLog, warnedAboutMissingLambdaLog,
                        stdout, writeFile, loggers >>

-----------------------------------------------------------------------------
(* Inputs.                                                                 *)

App == << "App" >>

\* Values of LOG4JS_LEVEL.
EnvError == << "e", "r", "r", "o", "r" >>
EnvWarn == << " ", "W", "A", "R", "N", " " >>
EnvDebug == << "D", "e", "b", "u", "g" >>
EnvVerbose == << "v", "e", "r", "b", "o", "s", "e" >>

\* Messages.
mStarting == Str(<< "Starting" >>)
mSql == Str(<< "<hl sql>", "SELECT", " ", "1", "</hl>" >>)
mTwoTags == Str(<< "a", " ", "<chalk green-bold>", "OK", "</chalk>", " ",
                   "<hl sql>", "SELECT", " ", "1", "</hl>", " ", "b" >>)
mMalformed == Str(<< "<hl sql>", "SELECT", " ", "1", "</foo>" >>)
mNoCloser == Str(<< "a", " ", "<hl sql>", "SELECT" >>)
mOtherCloser == Str(<< "<hl sql>", "x", "</chalk>" >>)
mChalkLevel == Str(<< "<chalk level>", "x", "</chalk>" >>)
mChalkNope == Str(<< "<chalk green-nope-bold>", "OK", "</chalk>" >>)
mNoLang == Str(<< "<hl nolang>", "x", "</hl>" >>)
\* A message that holds the text of a placeholder of the styled logger.
mPlaceholder == Str(<< "<TO-BE-REPLACED-0>", " ", "<hl sql>", "SELECT", "</hl>" >>)
mPlaceholderFive == Str(<< "<hl sql>", "SELECT", "</hl>", " ", "<TO-BE-REPLACED-5>" >>)
mNumber == Num(<< "42" >>)
mBigInt == [ t |-> "bigint", s |-> << "9007199254740993" >> ]

\* Metadata.
metaUsage == Meta(<< [ k |-> "usage", v |-> Num(<< "95" >>) ] >>)
metaQuery == Meta(<< [ k |-> "query", v |-> mSql ], [ k |-> "n", v |-> mBigInt ] >>)
metaLines == Meta(<< [ k |-> "text", v |-> Str(<< "<hl sql>", "SELECT", "\n", "\n", "1", "</hl>" >>) ] >>)
metaMalformed == Meta(<< [ k |-> "q", v |-> mMalformed ] >>)

\* Times of day.
Morning == [ h |-> 7, m |-> 8, s |-> 9 ]
Night == [ h |-> 23, m |-> 59, s |-> 0 ]

-----------------------------------------------------------------------------
(* Spec: loggers of every class behind the level gate, a changing          *)
(* environment, and sequences of calls.                                    *)

Init ==
    /\ env \in [ LOG4JS_LEVEL : { undefined, EnvError }, LOG4JS_FILE : { undefined },
               LOG4JS_MODE : { undefined }, AWS_LAMBDA_FUNCTION_NAME : { undefined } ]
    /\ supportsColor = TRUE
    /\ lambdaLog \in BOOLEAN
    /\ warnedAboutMissingLambdaLog = FALSE
    /\ stdout = "console.log"
    /\ writeFile = "fs.appendFileSync"
    /\ currentFilePath = null
    /\ loggers = << >>
    /\ trace = << >>
    /\ calls = << >>

Next ==
    \/ \E kind \in Kinds \ { "DelegateLogger" } : NewLogger(kind, App, MaxLoggers)
    \/ \E c \in 1..Len(loggers) : NewDelegateLogger(App, << c >>, MaxLoggers)
    \/ \E v \in { undefined, << "app.log" >> } : SetEnvFile(v)
    \/ \E self \in 1..Len(loggers), level \in LogLevel,
          msg \in { mStarting, mChalkLevel }, fsOk \in BOOLEAN :
            Log(self, level, msg, NoMeta, Morning, fsOk)

Spec == Init /\ [][Next]_vars

-----------------------------------------------------------------------------
(* SpecLevel: the threshold of a logger against a changing LOG4JS_LEVEL.   *)

EnvLevels == { undefined, EnvError, EnvWarn, EnvDebug }

InitLevel ==
    /\ env \in [ LOG4JS_LEVEL : EnvLevels, LOG4JS_FILE : { undefined },
               LOG4JS_MODE : { undefined }, AWS_LAMBDA_FUNCTION_NAME : { undefined } ]
    /\ supportsColor = FALSE
    /\ lambdaLog = TRUE
    /\ warnedAboutMissingLambdaLog = FALSE
    /\ stdout = "console.log"
    /\ writeFile = "fs.appendFileSync"
    /\ currentFilePath = null
    /\ loggers = << >>
    /\ trace = << >>
    /\ calls = << >>

NextLevel ==
    \/ NewLogger("ConsoleLogger", App, MaxLoggers)
    \/ \E v \in EnvLevels : SetEnvLevel(v)
    \/ \E self \in 1..Len(loggers), level \in LogLevel :
            Log(self, level, mStarting, NoMeta, Morning, TRUE)

SpecLevel == InitLevel /\ [][NextLevel]_vars

-----------------------------------------------------------------------------
(* SpecGate: loggers of every class behind Logger.log with the threshold   *)
(* error, called at a level that passes and at a level that fails, with a  *)
(* message and metadata that are costly to render.                         *)

InitGate ==
    /\ env = [ LOG4JS_LEVEL |-> EnvError, LOG4JS_FILE |-> undefined,
             LOG4JS_MODE |-> undefined, AWS_LAMBDA_FUNCTION_NAME |-> undefined ]
    /\ supportsColor = TRUE
    /\ lambdaLog = FALSE
    /\ warnedAboutMissingLambdaLog = FALSE
    /\ stdout = "console.log"
    /\ writeFile = "fs.appendFileSync"
    /\ currentFilePath = null
    /\ loggers = << >>
    /\ trace = << >>
    /\ calls = << >>

NextGate ==
    \/ \E kind \in TextKinds \cup { "LambdaLogger" } : NewLogger(kind, App, MaxLoggers)
    \/ \E c \in 1..Len(loggers) : NewDelegateLogger(App, << c >>, MaxLoggers)
    \/ \E v \in { undefined, << "app.log" >> } : SetEnvFile(v)
    \/ \E self \in 1..Len(loggers), level \in { "error", "debug" } :
            Log(self, level, mChalkLevel, metaQuery, Morning, TRUE)

SpecGate == InitGate /\ [][NextGate]_vars

-----------------------------------------------------------------------------
(* SpecDelegate: a DelegateLogger over console and file loggers.           *)

SeqsUpTo(S, n) == UNION { [ 1..k -> S ] : k \in 1..n }

InitDelegate ==
    /\ env \in [ LOG4JS_LEVEL : { undefined, EnvError }, LOG4JS_FILE : { << "app.log" >> },
               LOG4JS_MODE : { undefined }, AWS_LAMBDA_FUNCTION_NAME : { undefined } ]
    /\ supportsColor = TRUE
    /\ lambdaLog = TRUE
    /\ warnedAboutMissingLambdaLog = FALSE
    /\ stdout = "console.log"
    /\ writeFile = "fs.appendFileSync"
    /\ currentFilePath = null
    /\ loggers = << >>
    /\ trace = << >>
    /\ calls = << >>

NextDelegate ==
    \/ \E kind \in { "ColorfulConsoleLogger", "FileLogger" } :
            NewLogger(kind, App, MaxChildren)
    \/ \E children \in SeqsUpTo(1..Len(loggers), MaxChildren) :
            /\ \A i \in DOMAIN children : loggers[children[i]].kind # "DelegateLogger"
            /\ NewDelegateLogger(App, children, MaxChildren + 1)
    \/ \E v \in { undefined, EnvError } : SetEnvLevel(v)
    \/ \E self \in 1..Len(loggers), level \in { "error", "info" },
          msg \in { mStarting, mChalkLevel } :
            /\ loggers[self].kind = "DelegateLogger"
            /\ Log(self, level, msg, metaUsage, Morning, TRUE)

SpecDelegate == InitDelegate /\ [][NextDelegate]_vars

-----------------------------------------------------------------------------
(* SpecText: what the loggers render.  Every class of logger, a            *)
(* DelegateLogger over the loggers constructed so far (as log4js() builds  *)
(* it, src/unnamed/part_002:61-125), and one call with a message and       *)
(* metadata of every shape; what is rendered depends on no earlier call.   *)

TextInputs ==
    { << mStarting, NoMeta >>, << mStarting, metaUsage >>, << mSql, NoMeta >>,
      << mTwoTags, NoMeta >>, << mMalformed, NoMeta >>, << mNoCloser, NoMeta >>,
      << mOtherCloser, NoMeta >>, << mChalkLevel, NoMeta >>, << mChalkNope, NoMeta >>,
      << mNoLang, NoMeta >>, << mNumber, NoMeta >>, << mNumber, metaUsage >>,
      << mStarting, metaQuery >>, << mStarting, metaLines >>,
      << mStarting, metaMalformed >>, << mBigInt, NoMeta >>,
      << mPlaceholder, NoMeta >>, << mPlaceholderFive, NoMeta >> }

TextMoments ==
    { << "info", Morning >>, << "warn", Morning >>, << "error", Night >>, << "debug", Night >> }

InitText ==
    /\ env = [ LOG4JS_LEVEL |-> EnvDebug, LOG4JS_FILE |-> << "app.log" >>,
             LOG4JS_MODE |-> undefined, AWS_LAMBDA_FUNCTION_NAME |-> undefined ]
    /\ supportsColor \in BOOLEAN
    /\ lambdaLog = FALSE
    /\ warnedAboutMissingLambdaLog = FALSE
    /\ stdout = "console.log"
    /\ writeFile = "fs.appendFileSync"
    /\ currentFilePath = null
    /\ loggers = << >>
    /\ trace = << >>
    /\ calls = << >>

NextText ==
    \/ \E kind \in Kinds \ { "DelegateLogger" } : NewLogger(kind, App, MaxLoggers)
    \/ /\ loggers # << >>
       /\ \A i \in 1..Len(loggers) : loggers[i].kind # "DelegateLogger"
       /\ NewDelegateLogger(App, [ i \in 1..Len(loggers) |-> i ], MaxLoggers + 1)
    \/ \E self \in 1..Len(loggers), in \in TextInputs, at \in TextMoments :
            /\ calls = << >>
            /\ Log(self, at[1], in[1], in[2], at[2], TRUE)

SpecText == InitText /\ [][NextText]_vars

-----------------------------------------------------------------------------
(* Reading the history.                                                    *)

\* What the process did during call c, from its entry to its return or throw.
CallSeg(c) == SubSeq(trace, c.from + 1, c.to)

\* The call reached the renderer of the logger it was made on.
Entered(c) ==
    \E i \in 1..Len(CallSeg(c)) :
        CallSeg(c)[i].op = "logInternal" /\ CallSeg(c)[i].by = c.logger

LastCall == calls[Len(calls)]

\* The writes to the output functions of the text loggers.
IsWrite(e) == e.op \in { "stdout", "writeFile" }

\* The writes made during call c.
WritesIn(c) == SelectSeq(CallSeg(c), IsWrite)

\* The message a write hands over: the file receives it with a line break.
Output(w) == IF w.op = "writeFile" THEN SubSeq(w.text, 1, Len(w.text) - 1) ELSE w.text

\* A text without the colour escape codes in it.
EscapeCodes == { "ESC[" \o n : n \in ChalkStyles } \cup { "ESC[0" }
Unstyled(s) == SelectSeq(s, LAMBDA tok : tok \notin EscapeCodes)
AsWritten(s) == s

\* `[HH:MM:SS] [name/LEVEL]`, spelled out.
TwoDigits(n) == << Numeral[(n \div 10) + 1], Numeral[(n % 10) + 1] >>
UpperCase(level) ==
    CASE level = "error" -> "ERROR" [] level = "warn" -> "WARN"
      [] level = "info" -> "INFO" [] level = "debug" -> "DEBUG"
HeaderText(name, level, now) ==
    << "[" >> \o TwoDigits(now.h) \o << ":" >> \o TwoDigits(now.m) \o << ":" >>
    \o TwoDigits(now.s) \o << "]", " ", "[" >> \o name \o << "/", UpperCase(level), "]" >>

\* sub occurs in s as a contiguous run.
Contains(s, sub) ==
    \E i \in 0..(Len(s) - Len(sub)) : SubSeq(s, i + 1, i + Len(sub)) = sub

\* Every line of a block starts with two spaces.
TwoSpaceIndented(block) ==
    \A i \in 1..Len(SplitLines(block)) :
        LET line == SplitLines(block)[i]
        IN  Len(line) >= 2 /\ line[1] = " " /\ line[2] = " "

-----------------------------------------------------------------------------
(* C1: shouldLog(L, T) is true iff priority(L) <= priority(T) under the     *)
(* table error=0, warn=1, info=2, debug=3: a call at level L on a logger   *)
(* whose threshold is T reaches the renderer exactly in that case; the     *)
(* threshold warn admits exactly error and warn.                           *)

C1_Priority(l) ==
    CASE l = "error" -> 0 [] l = "warn" -> 1 [] l = "info" -> 2 [] l = "debug" -> 3

C1_ShouldLogIffPriority ==
    \A n \in 1..Len(calls) :
        LET c == calls[n]
            T == loggers[c.logger].minLevel
        IN  /\ Entered(c) <=> C1_Priority(c.level) <= C1_Priority(T)
            /\ T = "warn" => (Entered(c) <=> c.level \in { "error", "warn" })

C1_Witness ==
    /\ Len(calls) = 2
    /\ loggers[calls[1].logger].minLevel = "warn"
    /\ loggers[calls[2].logger].minLevel = "warn"
    /\ calls[1].level = "warn" /\ Entered(calls[1])
    /\ calls[2].level = "info" /\ ~Entered(calls[2])

-----------------------------------------------------------------------------
(* C10: the threshold of a logger is read from the environment once, at    *)
(* construction: a new logger takes the level LOG4JS_LEVEL stands for at   *)
(* that moment, no step changes the threshold of an existing logger, and   *)
(* every call is gated by the threshold of its logger, whatever            *)
(* LOG4JS_LEVEL says when the call is made.                                *)

C10_LevelOf(value) ==
    CASE value = EnvError -> "error" [] value = EnvWarn -> "warn"
      [] value = EnvDebug -> "debug" [] OTHER -> "info"

C10_ThresholdFixedAtConstruction ==
    [][ /\ \A i \in 1..Len(loggers) : loggers'[i] = loggers[i]
        /\ Len(loggers') > Len(loggers) =>
              loggers'[Len(loggers')].minLevel = C10_LevelOf(env.LOG4JS_LEVEL)
        /\ Len(calls') > Len(calls) =>
              LET c == calls'[Len(calls')]
              IN  (\E i \in c.from + 1..c.to :
                      trace'[i].op = "logInternal" /\ trace'[i].by = c.logger)
                  <=> C1_Priority(c.level) <= C1_Priority(loggers[c.logger].minLevel)
      ]_vars

\* A logger built under `error`, the variable then set to `debug`, a debug
\* call on it dropped, and a logger built afterwards that takes `debug`.
C10_Witness ==
    /\ Len(loggers) = 2 /\ Len(calls) > 0
    /\ loggers[1].minLevel = "error" /\ loggers[2].minLevel = "debug"
    /\ env.LOG4JS_LEVEL = EnvDebug
    /\ LastCall.logger = 1 /\ LastCall.level = "debug" /\ ~Entered(LastCall)

-----------------------------------------------------------------------------
(* C2: a call whose level fails the gate against the threshold of the      *)
(* logger it is made on is a complete no-op, on a text, file, structured   *)
(* or delegate logger: between its entry and its return nothing is         *)
(* rendered, serialized or written, it returns normally, and the output    *)
(* functions, the file path and the warning flag are unchanged.            *)

C2_FailsGate(c) ==
    /\ loggers[c.logger].minLevel \in LogLevel
    /\ C1_Priority(c.level) > C1_Priority(loggers[c.logger].minLevel)

-----------------------------------------------------------------------------
(* C9: after any sequence of calls on console loggers, the writes to the   *)
(* output function are exactly the accepted calls, in the order the calls  *)
(* were issued: every accepted call makes exactly one write before it      *)
(* returns, every other call makes none.                                   *)

C9_Accepted(c) ==
    \/ loggers[c.logger].minLevel \notin LogLevel
    \/ C1_Priority(c.level) <= C1_Priority(loggers[c.logger].minLevel)

C9_OneWritePerAcceptedCall ==
    \A n \in 1..Len(calls) :
        LET c == calls[n]
        IN  loggers[c.logger].kind \in { "ConsoleLogger", "ColorfulConsoleLogger" } =>
              /\ Len(WritesIn(c)) = IF C9_Accepted(c) THEN 1 ELSE 0
              /\ \A i \in 1..Len(WritesIn(c)) : WritesIn(c)[i].by = c.logger
              /\ n > 1 => calls[n - 1].to <= c.from

-----------------------------------------------------------------------------
(* C3: a call through a DelegateLogger holding N children that passes the  *)
(* gate of the DelegateLogger invokes log on each of the N children        *)
(* exactly once, in list order, each with the (level, msg, meta) of the    *)
(* original call, and child i+1 is invoked only after child i is left.     *)

\* The entries into and the exits from log of the children during call c.
C3_ChildSteps(c) ==
    SelectSeq(CallSeg(c), LAMBDA e : e.by # c.logger /\ e.op \in { "log", "return", "throw" })

C3_EachChildOnceInOrder ==
    \A n \in 1..Len(calls) :
        LET c == calls[n]
            children == loggers[c.logger].loggers
            steps == C3_ChildSteps(c)
        IN  loggers[c.logger].kind = "DelegateLogger" /\ Entered(c) =>
              /\ Len(steps) = 2 * Len(children)
              /\ \A i \in 1..Len(children) :
                    /\ steps[2 * i - 1].op = "log"
                    /\ steps[2 * i - 1].by = children[i]
                    /\ steps[2 * i - 1].level = c.level
                    /\ steps[2 * i - 1].msg = c.msg
                    /\ steps[2 * i - 1].meta = c.meta
                    /\ steps[2 * i].op \in { "return", "throw" }
                    /\ steps[2 * i].by = children[i]

-----------------------------------------------------------------------------
(* C4: in a DelegateLogger, an error raised by the render or write step of *)
(* one child does not prevent the children after it in the list from       *)
(* receiving the same call.                                                *)

C4_Received(c) ==
    SelectSeq(CallSeg(c), LAMBDA e : e.by # c.logger /\ e.op = "log")

C4_LaterChildrenReceiveCall ==
    \A n \in 1..Len(calls) :
        LET c == calls[n]
            children == loggers[c.logger].loggers
        IN  /\ loggers[c.logger].kind = "DelegateLogger"
            /\ \E i \in 1..Len(CallSeg(c)) :
                  CallSeg(c)[i].op = "throw" /\ CallSeg(c)[i].by # c.logger
            => /\ Len(C4_Received(c)) = Len(children)
               /\ \A i \in 1..Len(children) :
                     /\ C4_Received(c)[i].by = children[i]
                     /\ C4_Received(c)[i].msg = c.msg

-----------------------------------------------------------------------------
(* C5: a logging call never raises: on every logger, at every level, with  *)
(* every message and every metadata, log returns normally to the caller.   *)

C5_LogNeverRaises ==
    \A n \in 1..Len(calls) : ~calls[n].raised

-----------------------------------------------------------------------------
(* C6: the plain console logger and the file logger replace every          *)
(* well-formed magic tag <NAME PARAM>BODY</NAME> by exactly BODY and leave *)
(* the text outside tags unchanged, in the message and in the string       *)
(* leaves of the metadata block, also for the file logger behind a         *)
(* DelegateLogger whose console side is the styled logger.                 *)

C6_StripKinds == { "ConsoleLogger", "FileLogger", "ConsoleLogger0" }

C6_Tags(s) == SelectSeq(s, LAMBDA tok : tok \in OpenTags \cup CloseTags)

\* Openers and closers pair up, same name, one after the other, bodies not empty.
C6_WellFormed(s) ==
    /\ Len(C6_Tags(s)) % 2 = 0
    /\ \A j \in 1..Len(C6_Tags(s)) :
          IF j % 2 = 1 THEN C6_Tags(s)[j] \in OpenTags
          ELSE C6_Tags(s)[j] = CloserOf(C6_Tags(s)[j - 1])
    /\ \A i \in 1..Len(s) : s[i] \in OpenTags => i < Len(s) /\ s[i + 1] \notin CloseTags

\* The bodies and the text outside the tags.
C6_Bodies(s) == SelectSeq(s, LAMBDA tok : tok \notin OpenTags \cup CloseTags)

C6_StripKeepsBody ==
    \A n \in 1..Len(calls) :
        LET c == calls[n]
        IN  \A i \in 1..Len(WritesIn(c)) :
              LET w == WritesIn(c)[i]
              IN  loggers[w.by].kind \in C6_StripKinds =>
                    /\ c.msg.t = "string" /\ C6_WellFormed(c.msg.s) /\ ~c.meta.present
                       => Output(w) = HeaderText(loggers[w.by].name, c.level, c.now)
                                      \o << " " >> \o C6_Bodies(c.msg.s)
                    /\ \A f \in Range(c.meta.fields) :
                          f.v.t = "string" /\ "\n" \notin Range(f.v.s) /\ C6_WellFormed(f.v.s)
                          => Contains(Output(w), << f.k, ":", " " >> \o C6_Bodies(f.v.s))

-----------------------------------------------------------------------------
(* C7: a malformed tag (the closer has another name, or there is no closer, *)
(* and no closer of the name of the opener comes later in the string) is   *)
(* matched by neither resolver: the strip loggers write the string         *)
(* unchanged, the styled logger invokes no tag renderer and leaves the     *)
(* literal tag text in its output.                                         *)

C7_Malformed(s) ==
    /\ \E i \in 1..Len(s) : s[i] \in OpenTags
    /\ \A i \in 1..Len(s) :
          s[i] \in OpenTags => \A k \in (i + 1)..Len(s) : s[k] # CloserOf(s[i])

C7_MalformedTagsUnmatched ==
    \A n \in 1..Len(calls) :
        LET c == calls[n]
            leaves == { f \in Range(c.meta.fields) : f.v.t = "string" }
        IN  /\ c.msg.t = "string" /\ C7_Malformed(c.msg.s) /\ ~c.meta.present
               => /\ \A i \in 1..Len(CallSeg(c)) : CallSeg(c)[i].op # "magics"
                  /\ ~c.raised
                  /\ \A i \in 1..Len(WritesIn(c)) :
                        LET w == WritesIn(c)[i]
                        IN  Unstyled(Output(w)) =
                              HeaderText(loggers[w.by].name, c.level, c.now)
                              \o << " " >> \o c.msg.s
            /\ c.msg.t = "string" /\ ~C7_Malformed(c.msg.s) /\ C6_Tags(c.msg.s) = << >>
               /\ leaves # { } /\ (\A g \in leaves : C7_Malformed(g.v.s))
               => /\ \A i \in 1..Len(CallSeg(c)) : CallSeg(c)[i].op # "magics"
                  /\ \A i \in 1..Len(WritesIn(c)) : \A f \in leaves :
                        Contains(Unstyled(Output(WritesIn(c)[i])),
                                 << f.k, ":", " " >> \o f.v.s)

\* The styled logger wrote a message whose tag is closed by a closer of
\* another name.
C7_Witness ==
    /\ calls # << >>
    /\ LastCall.msg = mOtherCloser
    /\ loggers[LastCall.logger].kind = "ColorfulConsoleLogger"
    /\ supportsColor
    /\ Len(WritesIn(LastCall)) = 1
    /\ Contains(WritesIn(LastCall)[1].text, << "<hl sql>", "x", "</chalk>" >>)

-----------------------------------------------------------------------------
(* C8: the output of an accepted call on a text logger has one of three    *)
(* shapes.  The message is not a string: header, line break,               *)
(* serialize({msg, ...meta}).  Else metadata is present: header, a space,  *)
(* the resolved message, line break, serialize(meta).  Else: header, a     *)
(* space, the resolved message.  The header is [HH:MM:SS] [name/LEVEL],    *)
(* two-digit zero-padded 24-hour fields, the level upper-cased, and every  *)
(* line of the serialized block starts with two spaces.  On the styled     *)
(* logger this is the output without its colour escape codes.              *)

\* w, written by the text logger l during call c, has the shape, seen through
\* view.
C8_HasShape(view(_), w, l, c) ==
    LET header == HeaderText(l.name, c.level, c.now)
        fields == IF c.msg.t # "string"
                  THEN (IF c.meta.present THEN SpreadMsg(c.msg, c.meta.fields)
                        ELSE << [ k |-> "msg", v |-> c.msg ] >>)
                  ELSE c.meta.fields
        shaped(out, message, block) ==
            /\ Len(out) > Len(header)
            /\ SubSeq(out, 1, Len(header)) = header
            /\ IF c.msg.t # "string"
               THEN /\ out[Len(header) + 1] = "\n"
                    /\ SubSeq(out, Len(header) + 2, Len(out)) = block
                    /\ TwoSpaceIndented(block)
                    /\ Contains(block, << " ", " ", "msg", ":" >>)
               ELSE IF c.meta.present
               THEN /\ out[Len(header) + 1] = " "
                    /\ SubSeq(out, Len(header) + 2, Len(out)) = message \o << "\n" >> \o block
                    /\ TwoSpaceIndented(block)
               ELSE /\ out[Len(header) + 1] = " "
                    /\ SubSeq(out, Len(header) + 2, Len(out)) = message
                    /\ "\n" \notin Range(message)
    IN  shaped(view(Output(w)),
               view(handleMessage(l.kind, c.level, c.msg.s).text),
               view(handleMetadata(l.kind, fields).text))

C8_OutputShapes ==
    \A n \in 1..Len(calls) :
        \A i \in 1..Len(WritesIn(calls[n])) :
            LET w == WritesIn(calls[n])[i]
            IN  loggers[w.by].kind \in TextKinds =>
                    C8_HasShape(Unstyled, w, loggers[w.by], calls[n])

\* As claimed: the same of the output as it is written, escape codes included.
C8_OutputShapesAsWritten ==
    \A n \in 1..Len(calls) :
        \A i \in 1..Len(WritesIn(calls[n])) :
            LET w == WritesIn(calls[n])[i]
            IN  loggers[w.by].kind \in TextKinds =>
                    C8_HasShape(AsWritten, w, loggers[w.by], calls[n])

\* info("Starting", {usage: 95}) on the styled logger "App" at 07:08:09, with
\* colours on.
C8_Witness ==
    /\ calls # << >>
    /\ supportsColor
    /\ loggers[LastCall.logger].kind = "ColorfulConsoleLogger"
    /\ Len(WritesIn(LastCall)) = 1
    /\ Unstyled(WritesIn(LastCall)[1].text) =
          << "[", "0", "7", ":", "0", "8", ":", "0", "9", "]", " ", "[", "App", "/",
             "INFO", "]", " ", "Starting", "\n", " ", " ", "usage", ":", " ", "95" >>
    /\ WritesIn(LastCall)[1].text # Unstyled(WritesIn(LastCall)[1].text)

-----------------------------------------------------------------------------
(* SpecParse: loggers constructed under values of LOG4JS_LEVEL written as  *)
(* padding, a word, padding.                                               *)

LevelPads == { << >>, << " " >>, << "\t", "\n" >> }

\* Spellings of the four level names.
LevelWords ==
    { << "d", "e", "b", "u", "g" >>, << "D", "E", "B", "U", "G" >>,
      << "D", "e", "b", "u", "g" >>,
      << "i", "n", "f", "o" >>, << "I", "N", "F", "O" >>,
      << "w", "a", "r", "n" >>, << "W", "A", "R", "N" >>, << "w", "A", "r", "N" >>,
      << "e", "r", "r", "o", "r" >>, << "E", "r", "r", "o", "r" >> }

\* Words that name no level.
OtherWords ==
    { << >>, << "v", "e", "r", "b", "o", "s", "e" >>,
      << "W", "A", "R", "N", "I", "N", "G" >>, << "w", " ", "a", "r", "n" >>,
      << "e", "r", "r" >>, << "n", "o", "n", "e" >>, << "0" >> }

ParseInputs ==
    { undefined } \cup
    { pre \o word \o post : pre \in LevelPads, post \in LevelPads,
                            word \in LevelWords \cup OtherWords }

InitParse ==
    /\ env \in [ LOG4JS_LEVEL : ParseInputs, LOG4JS_FILE : { undefined },
               LOG4JS_MODE : { undefined }, AWS_LAMBDA_FUNCTION_NAME : { undefined } ]
    /\ supportsColor = FALSE
    /\ lambdaLog = TRUE
    /\ warnedAboutMissingLambdaLog = FALSE
    /\ stdout = "console.log"
    /\ writeFile = "fs.appendFileSync"
    /\ currentFilePath = null
    /\ loggers = << >>
    /\ trace = << >>
    /\ calls = << >>

NextParse ==
    \/ NewLogger("ConsoleLogger", App, MaxLoggers)
    \/ \E v \in ParseInputs : SetEnvLevel(v)

SpecParse == InitParse /\ [][NextParse]_vars

-----------------------------------------------------------------------------
(* C11: parseLogLevel maps a raw string to a level by a case-insensitive,  *)
(* whitespace-trimmed match against debug, info, warn, error, and returns  *)
(* info for every absent, empty or unrecognized value: a logger            *)
(* constructed under padding + word + padding takes the level the word     *)
(* spells, and info when the word spells none or the value is absent.      *)

C11_Spells(word) ==
    CASE word \in { << "d", "e", "b", "u", "g" >>, << "D", "E", "B", "U", "G" >>,
                    << "D", "e", "b", "u", "g" >> } -> "debug"
      [] word \in { << "w", "a", "r", "n" >>, << "W", "A", "R", "N" >>,
                    << "w", "A", "r", "N" >> } -> "warn"
      [] word \in { << "e", "r", "r", "o", "r" >>, << "E", "r", "r", "o", "r" >> } -> "error"
      [] OTHER -> "info"

C11_ParseLogLevel ==
    [][ Len(loggers') > Len(loggers) =>
          /\ loggers'[Len(loggers')].minLevel \in LogLevel
          /\ env.LOG4JS_LEVEL = undefined => loggers'[Len(loggers')].minLevel = "info"
          /\ \A pre \in LevelPads, post \in LevelPads, word \in LevelWords \cup OtherWords :
                env.LOG4JS_LEVEL = pre \o word \o post =>
                    loggers'[Len(loggers')].minLevel = C11_Spells(word)
      ]_vars

\* Loggers constructed under a padded upper-case WARN and under a word that
\* names no level.
C11_Witness ==
    /\ Len(loggers) = 2
    /\ loggers[1].minLevel = "warn"
    /\ loggers[2].minLevel = "info"
    /\ env.LOG4JS_LEVEL = << " ", "W", "A", "R", "N", "I", "N", "G", " " >>

-----------------------------------------------------------------------------
(* SpecOutput: console and file loggers while ConsoleLogger.stdout and     *)
(* FileLogger.writeFile are replaced.                                      *)

OutputFunctions == { "f", "g" }

InitOutput ==
    /\ env = [ LOG4JS_LEVEL |-> undefined, LOG4JS_FILE |-> undefined,
             LOG4JS_MODE |-> undefined, AWS_LAMBDA_FUNCTION_NAME |-> undefined ]
    /\ supportsColor = TRUE
    /\ lambdaLog = TRUE
    /\ warnedAboutMissingLambdaLog = FALSE
    /\ stdout = "console.log"
    /\ writeFile = "fs.appendFileSync"
    /\ currentFilePath = null
    /\ loggers = << >>
    /\ trace = << >>
    /\ calls = << >>

NextOutput ==
    \/ \E kind \in TextKinds : NewLogger(kind, App, MaxLoggers)
    \/ \E f \in OutputFunctions : SetStdout(f)
    \/ \E f \in OutputFunctions : SetWriteFile(f)
    \/ \E self \in 1..Len(loggers), level \in { "info", "debug" },
          msg \in { mStarting, mChalkLevel } :
            Log(self, level, msg, NoMeta, Morning, TRUE)

SpecOutput == InitOutput /\ [][NextOutput]_vars

-----------------------------------------------------------------------------
(* C12: one output function per family, shared by all instances: every     *)
(* accepted call on a plain or styled console logger invokes the function  *)
(* ConsoleLogger.stdout holds at that moment exactly once, every accepted  *)
(* call on a file logger the function FileLogger.writeFile holds, and no   *)
(* other function, whenever the instance was constructed.                  *)

C12_SharedOutputFunction ==
    [][ Len(calls') > Len(calls) =>
          LET c == calls'[Len(calls')]
              kind == loggers[c.logger].kind
              ws == SelectSeq(SubSeq(trace', Len(trace) + 1, Len(trace')), IsWrite)
          IN  C9_Accepted(c) =>
                /\ kind \in { "ConsoleLogger", "ColorfulConsoleLogger" } =>
                      /\ Len(ws) = 1
                      /\ ws[1].op = "stdout" /\ ws[1].fn = stdout
                /\ kind = "FileLogger" =>
                      /\ Len(ws) = 1
                      /\ ws[1].op = "writeFile" /\ ws[1].fn = writeFile
      ]_vars

-----------------------------------------------------------------------------
(* SpecFile: file loggers while LOG4JS_FILE and FileLogger.writeFile change *)
(* and fs.appendFileSync succeeds or fails.                                 *)

AppLog == << "app.log" >>

FilePaths == { undefined, << >>, AppLog }

FileInputs == { << "info", mStarting, NoMeta >>, << "info", mSql, metaUsage >>,
                << "debug", mStarting, NoMeta >> }

InitFile ==
    /\ env = [ LOG4JS_LEVEL |-> undefined, LOG4JS_FILE |-> undefined,
             LOG4JS_MODE |-> undefined, AWS_LAMBDA_FUNCTION_NAME |-> undefined ]
    /\ supportsColor = TRUE
    /\ lambdaLog = TRUE
    /\ warnedAboutMissingLambdaLog = FALSE
    /\ stdout = "console.log"
    /\ writeFile = "fs.appendFileSync"
    /\ currentFilePath = null
    /\ loggers = << >>
    /\ trace = << >>
    /\ calls = << >>

NextFile ==
    \/ NewLogger("FileLogger", App, MaxLoggers)
    \/ \E value \in FilePaths : SetEnvFile(value)
    \/ SetWriteFile("f")
    \/ \E self \in 1..Len(loggers), in \in FileInputs, fsOk \in BOOLEAN :
            Log(self, in[1], in[2], in[3], Morning, fsOk)

SpecFile == InitFile /\ [][NextFile]_vars

-----------------------------------------------------------------------------
(* C13: every accepted call on a file logger invokes FileLogger.writeFile   *)
(* exactly once, with the rendered text followed by exactly one newline as  *)
(* content and with LOG4JS_FILE as path when it is set and latest.log       *)
(* otherwise; the path is never null and no accepted call is dropped.       *)

C13_FileWrite ==
    [][ Len(calls') > Len(calls) =>
          LET c == calls'[Len(calls')]
              l == loggers[c.logger]
              ws == SelectSeq(SubSeq(trace', Len(trace) + 1, Len(trace')), IsWrite)
              shape(w, text) ==
                  /\ w.op = "writeFile"
                  /\ w.path # null
                  /\ w.path = IF env.LOG4JS_FILE \in { undefined, << >> }
                              THEN << "latest.log" >> ELSE env.LOG4JS_FILE
                  /\ w.text = text \o << "\n" >>
          IN  (l.kind = "FileLogger" /\ C9_Accepted(c)) =>
                /\ Len(ws) = 1
                /\ shape(ws[1], renderText(l.kind, l.name, c.level, c.msg, c.meta,
                                           c.now).text)
      ]_vars

C13_Witness ==
    /\ Len(calls) = 2
    /\ \A i \in 1..2 : C9_Accepted(calls[i]) /\ Len(WritesIn(calls[i])) = 1
    /\ WritesIn(calls[1])[1].path = << "latest.log" >>
    /\ WritesIn(calls[2])[1].path = AppLog
    /\ WritesIn(calls[2])[1].text =
          HeaderText(App, "info", Morning) \o << " ", "Starting", "\n" >>

-----------------------------------------------------------------------------
(* SpecSelect: log4js(name) under every combination of LOG4JS_MODE,         *)
(* LOG4JS_FILE, AWS_LAMBDA_FUNCTION_NAME and chalk.supportsColor.           *)

\* The tokens a mode is written with: the words of pickLoggerForMode, one of
\* the cli/ spellings, a word it does not know, and the empty token.
CliPlain == ModeWords.cli \o << "/" >> \o ModeWords.plain
Json == << "j", "s", "o", "n" >>
ModeTokens == { ModeWords[w] : w \in DOMAIN ModeWords } \cup { CliPlain, Json, << >> }

\* One token, or two of which one is file.
ModeLists ==
    { << t >> : t \in ModeTokens }
      \cup { << ModeWords.file, t >> : t \in ModeTokens }
      \cup { << t, ModeWords.file >> : t \in ModeTokens }

ModeStyles == { "lower", "upper padded" }

Shout(s) ==
    [ i \in 1..Len(s) |->
        IF \E k \in 1..26 : LowerCaseLetters[k] = s[i]
        THEN UpperCaseLetters[CHOOSE k \in 1..26 : LowerCaseLetters[k] = s[i]]
        ELSE s[i] ]

Dress(t, style) ==
    IF style = "lower" THEN t ELSE << " " >> \o Shout(t) \o << "\t" >>

\* The value of LOG4JS_MODE that lists the tokens toks in a style.
ModeOf(toks, style) ==
    IF Len(toks) = 1 THEN Dress(toks[1], style)
    ELSE Dress(toks[1], style) \o << "," >> \o Dress(toks[2], style)

ModeInputs ==
    { undefined } \cup { ModeOf(toks, style) : toks \in ModeLists, style \in ModeStyles }

FunctionName == << "fn" >>

InitSelect ==
    /\ env \in [ LOG4JS_LEVEL : { undefined }, LOG4JS_FILE : { undefined, AppLog },
                 LOG4JS_MODE : { undefined },
                 AWS_LAMBDA_FUNCTION_NAME : { undefined, FunctionName } ]
    /\ supportsColor \in BOOLEAN
    /\ lambdaLog = TRUE
    /\ warnedAboutMissingLambdaLog = FALSE
    /\ stdout = "console.log"
    /\ writeFile = "fs.appendFileSync"
    /\ currentFilePath = null
    /\ loggers = << >>
    /\ trace = << >>
    /\ calls = << >>

NextSelect ==
    \/ log4js(App, MaxLoggers)
    \/ \E value \in ModeInputs : SetEnvMode(value)

SpecSelect == InitSelect /\ [][NextSelect]_vars

\* What one call of log4js constructed, oldest first.
Made == SubSeq(loggers', Len(loggers) + 1, Len(loggers'))

\* The strategy for a terminal: styled if color-capable, else plain.
ByColor == IF supportsColor THEN "ColorfulConsoleLogger" ELSE "ConsoleLogger"

-----------------------------------------------------------------------------
(* C14: with neither LOG4JS_MODE nor LOG4JS_FILE set, log4js constructs the *)
(* structured logger if AWS_LAMBDA_FUNCTION_NAME is present, otherwise the  *)
(* styled logger if the terminal is color-capable, otherwise the plain      *)
(* logger, and returns that logger itself, without a multiplexer.           *)

C14_AutoDetected ==
    IF env.AWS_LAMBDA_FUNCTION_NAME # undefined THEN "LambdaLogger" ELSE ByColor

C14_NoOverrides ==
    [][ (Len(loggers') > Len(loggers)
           /\ env.LOG4JS_MODE = undefined /\ env.LOG4JS_FILE = undefined) =>
          /\ Len(Made) = 1
          /\ Made[1].kind = C14_AutoDetected
          /\ Made[1].kind # "DelegateLogger"
      ]_vars

C14_Witness ==
    /\ env.LOG4JS_MODE = undefined /\ env.LOG4JS_FILE = undefined
    /\ env.AWS_LAMBDA_FUNCTION_NAME = FunctionName
    /\ supportsColor
    /\ Len(loggers) = 2
    /\ \A i \in 1..2 : loggers[i].kind = "LambdaLogger"

-----------------------------------------------------------------------------
(* C16: the tokens of LOG4JS_MODE are matched whatever their case and after *)
(* trimming, and the first token other than file decides the console        *)
(* logger: lambda, aws, cloudwatch the structured one; colorful, color the  *)
(* styled one; plain, text, plaintext the plain one; cli, console the       *)
(* styled one if the terminal is color-capable, else the plain one; a token *)
(* log4js does not know, the empty one included, raises nothing and gives   *)
(* the styled logger if color-capable, else the plain one.  (cli/plain is   *)
(* one of the further spellings log4js knows: it gives the plain logger.)   *)

C16_Strategy(token) ==
    CASE token \in { ModeWords.lambda, ModeWords.aws, ModeWords.cloudwatch } ->
            "LambdaLogger"
      [] token \in { ModeWords.colorful, ModeWords.color } -> "ColorfulConsoleLogger"
      [] token \in { ModeWords.plain, ModeWords.text, ModeWords.plaintext, CliPlain } ->
            "ConsoleLogger"
      [] OTHER -> ByColor

C16_ModeTokens ==
    [][ Len(loggers') > Len(loggers) =>
          \A toks \in ModeLists, style \in ModeStyles :
              LET others == SelectSeq(toks, LAMBDA t : t # ModeWords.file)
              IN  (env.LOG4JS_MODE = ModeOf(toks, style) /\ others # << >>) =>
                    /\ Made[1].kind = C16_Strategy(others[1])
                    /\ \A i \in (Len(trace) + 1)..Len(trace') : trace'[i].op # "throw"
      ]_vars

C16_Witness ==
    /\ env.LOG4JS_MODE = ModeOf(<< ModeWords.file, ModeWords.cloudwatch >>, "upper padded")
    /\ ~supportsColor
    /\ Len(loggers) = 4
    /\ loggers[1].kind = "ConsoleLogger"
    /\ loggers[2].kind = "LambdaLogger"
    /\ loggers[4].kind = "DelegateLogger"

-----------------------------------------------------------------------------
(* C15: log4js returns a multiplexer of exactly two children, the console   *)
(* logger first and a file logger second, if and only if LOG4JS_MODE holds  *)
(* the file token or LOG4JS_FILE is set, and the single console logger      *)
(* otherwise; the console logger is the one that would be chosen without    *)
(* the file token and without LOG4JS_FILE.                                  *)

C15_WithoutFile(others) ==
    IF others = << >> THEN C14_AutoDetected ELSE C16_Strategy(others[1])

C15_FileAddsMultiplexer ==
    [][ Len(loggers') > Len(loggers) =>
          LET n == Len(loggers)
              expect(others, file) ==
                  /\ Made[1].kind = C15_WithoutFile(others)
                  /\ IF file
                     THEN /\ Len(Made) = 3
                          /\ Made[2].kind = "FileLogger"
                          /\ Made[3].kind = "DelegateLogger"
                          /\ Made[3].loggers = << n + 1, n + 2 >>
                     ELSE Len(Made) = 1
          IN  /\ env.LOG4JS_MODE = undefined =>
                    expect(<< >>, env.LOG4JS_FILE # undefined)
              /\ \A toks \in ModeLists, style \in ModeStyles :
                    env.LOG4JS_MODE = ModeOf(toks, style) =>
                        expect(SelectSeq(toks, LAMBDA t : t # ModeWords.file),
                               \/ env.LOG4JS_FILE # undefined
                               \/ \E i \in 1..Len(toks) : toks[i] = ModeWords.file)
      ]_vars

-----------------------------------------------------------------------------
(* SpecLambda: structured and plain loggers are constructed and called,     *)
(* with lambda-log installed or missing.                                    *)

\* Metadata whose field has the name of a field of the log object.
metaShadow == Meta(<< [ k |-> "_logLevel", v |-> Str(<< "trace" >>) ] >>)

\* Metadata with a field named msg of its own.
metaOwnMsg ==
    Meta(<< [ k |-> "usage", v |-> Num(<< "95" >>) ], [ k |-> "msg", v |-> Str(<< "mine" >>) ] >>)

LambdaInputs ==
    { << "info", mStarting, metaUsage >>, << "info", mNumber, metaShadow >>,
      << "info", Undef, NoMeta >>, << "debug", mStarting, NoMeta >>,
      << "warn", mSql, NoMeta >>, << "error", mNumber, NoMeta >>,
      << "warn", mNumber, metaOwnMsg >> }

InitLambda ==
    /\ env = [ LOG4JS_LEVEL |-> undefined, LOG4JS_FILE |-> undefined,
              LOG4JS_MODE |-> undefined, AWS_LAMBDA_FUNCTION_NAME |-> undefined ]
    /\ supportsColor = TRUE
    /\ lambdaLog \in BOOLEAN
    /\ warnedAboutMissingLambdaLog = FALSE
    /\ stdout = "console.log"
    /\ writeFile = "fs.appendFileSync"
    /\ currentFilePath = null
    /\ loggers = << >>
    /\ trace = << >>
    /\ calls = << >>

NextLambda ==
    \/ \E kind \in { "LambdaLogger", "ConsoleLogger" } : NewLogger(kind, App, MaxLoggers)
    \/ \E self \in 1..Len(loggers), in \in LambdaInputs :
            Log(self, in[1], in[2], in[3], Morning, TRUE)

SpecLambda == InitLambda /\ [][NextLambda]_vars

-----------------------------------------------------------------------------
(* C17: with lambda-log missing, every accepted call on a LambdaLogger      *)
(* writes exactly one single-line encoded object to standard output, whose  *)
(* _logLevel is the level of the call, whose _tags is the list of the       *)
(* logger name alone, whose msg is the message (left out only when the      *)
(* message is undefined), and which carries every field of the metadata,    *)
(* whatever the metadata.                                                   *)

C17_Value(v) ==
    IF v.t = "string"
    THEN << "\"" >> \o [ i \in 1..Len(v.s) |-> IF v.s[i] = "\n" THEN "\\n" ELSE v.s[i] ]
         \o << "\"" >>
    ELSE v.s

C17_Field(k, v) == << ",", "\"", k, "\"", ":" >> \o C17_Value(v)

C17_Object(name, level, msg, meta) ==
    << "{", "\"", "_logLevel", "\"", ":", "\"", level, "\"", ",",
       "\"", "_tags", "\"", ":", "[", "\"" >> \o name \o << "\"", "]" >>
    \o (IF msg.t = "undefined" THEN << >> ELSE C17_Field("msg", msg))
    \o Flatten([ i \in 1..Len(meta.fields) |->
                   C17_Field(meta.fields[i].k, meta.fields[i].v) ])
    \o << "}" >>

C17_FallbackObject ==
    \A n \in 1..Len(calls) :
        LET c == calls[n]
            l == loggers[c.logger]
            out == SelectSeq(CallSeg(c), LAMBDA e : e.op = "console.log")
        IN  (l.kind = "LambdaLogger" /\ ~lambdaLog /\ C9_Accepted(c)) =>
              /\ Len(out) = 1
              /\ out[1].text = C17_Object(l.name, c.level, c.msg, c.meta)
              /\ \A i \in 1..Len(out[1].text) : out[1].text[i] # "\n"

-----------------------------------------------------------------------------
(* C18: over the constructions and calls of one process the warning about   *)
(* the missing lambda-log is written at most once: once if lambda-log is    *)
(* missing and a LambdaLogger has been constructed, never by a call, and    *)
(* never when lambda-log is installed.                                      *)

C18_Warnings == Cardinality({ i \in 1..Len(trace) : trace[i].op = "console.warn" })

C18_WarnedOnce ==
    /\ C18_Warnings =
          IF ~lambdaLog /\ \E i \in 1..Len(loggers) : loggers[i].kind = "LambdaLogger"
          THEN 1 ELSE 0
    /\ \A n \in 1..Len(calls) :
          \A i \in (calls[n].from + 1)..calls[n].to : trace[i].op # "console.warn"

C18_Witness ==
    /\ ~lambdaLog
    /\ Len(loggers) = 2
    /\ \A i \in 1..2 : loggers[i].kind = "LambdaLogger"
    /\ Len(calls) = 2
    /\ \A n \in 1..2 : C9_Accepted(calls[n])
    /\ C18_Warnings = 1

-----------------------------------------------------------------------------
(* SpecMeta: text loggers called with metadata that holds a function or an  *)
(* Error.                                                                   *)

Fn(source) == [ t |-> "function", s |-> source ]

\* function add(a, b) { return a + b }
fPlain ==
    Fn(<< "function", " ", "add", "(", "a", ",", " ", "b", ")", " ", "{", " ", "return",
          " ", "a", " ", "+", " ", "b", " ", "}" >>)
\* async function load(url) {\n  return url\n}
fAsync ==
    Fn(<< "async", " ", "function", " ", "load", "(", "url", ")", " ", "{", "\n", " ", " ",
          "return", " ", "url", "\n", "}" >>)
\* function noop() {}
fEmpty == Fn(<< "function", " ", "noop", "(", ")", " ", "{", "}" >>)
\* (x) => x + 1
fArrow == Fn(<< "(", "x", ")", " ", "=>", " ", "x", " ", "+", " ", "1" >>)
\* (x,y) => {\n  return x\n}
fArrowBlock ==
    Fn(<< "(", "x", ",", "y", ")", " ", "=>", " ", "{", "\n", " ", " ", "return", " ", "x",
          "\n", "}" >>)
\* async (x) => x
fAsyncArrow == Fn(<< "async", " ", "(", "x", ")", " ", "=>", " ", "x" >>)
\* () => {}
fArrowEmpty == Fn(<< "(", ")", " ", "=>", " ", "{", "}" >>)
\* run(job) {\n  job.start()\n}
fMethod ==
    Fn(<< "run", "(", "job", ")", " ", "{", "\n", " ", " ", "job", ".", "start", "(", ")",
          "\n", "}" >>)
\* class Cache {\n  get(k) { return k }\n}
fClass ==
    Fn(<< "class", " ", "Cache", " ", "{", "\n", " ", " ", "get", "(", "k", ")", " ", "{",
          " ", "return", " ", "k", " ", "}", "\n", "}" >>)
\* class Point {\n  constructor(x,y) { this.x = x }\n}
fClassCtor ==
    Fn(<< "class", " ", "Point", " ", "{", "\n", " ", " ", "constructor", "(", "x", ",",
          "y", ")", " ", "{", " ", "this", ".", "x", " ", "=", " ", "x", " ", "}", "\n",
          "}" >>)
\* class Unit {}
fClassEmpty == Fn(<< "class", " ", "Unit", " ", "{", "}" >>)
\* function sum(\n  a,\n  b\n) { return a + b }
fMultiline ==
    Fn(<< "function", " ", "sum", "(", "\n", " ", " ", "a", ",", "\n", " ", " ", "b", "\n",
          ")", " ", "{", " ", "return", " ", "a", " ", "+", " ", "b", " ", "}" >>)
\* function* gen() { yield 1 }
fGenerator ==
    Fn(<< "function", "*", " ", "gen", "(", ")", " ", "{", " ", "yield", " ", "1", " ",
          "}" >>)

Functions ==
    { fPlain, fAsync, fEmpty, fArrow, fArrowBlock, fArrowEmpty, fMethod, fClass,
      fClassCtor, fClassEmpty, fMultiline, fGenerator, fAsyncArrow }

\* new Error('boom'): stack and message are properties of the instance, name
\* is a property of Error.prototype.
errBoom ==
    [ t |-> "error",
      s |-> << [ k |-> "stack", own |-> TRUE,
                 v |-> Str(<< "Error: boom", "\n", "    at main" >>) ],
               [ k |-> "message", v |-> Str(<< "boom" >>), own |-> TRUE ],
               [ k |-> "name", v |-> Str(<< "Error" >>), own |-> FALSE ] >> ]

\* An error whose constructor sets this.name = 'HttpError' and this.code = 502.
errHttp ==
    [ t |-> "error",
      s |-> << [ k |-> "stack", own |-> TRUE,
                 v |-> Str(<< "Error: bad gateway", "\n", "    at main" >>) ],
               [ k |-> "message", v |-> Str(<< "bad gateway" >>), own |-> TRUE ],
               [ k |-> "name", v |-> Str(<< "HttpError" >>), own |-> TRUE ],
               [ k |-> "code", v |-> Num(<< "502" >>), own |-> TRUE ] >> ]

MetaInputs ==
    { Meta(<< [ k |-> "fn", v |-> f ] >>) : f \in Functions }
      \cup { Meta(<< [ k |-> "err", v |-> e ] >>) : e \in { errBoom, errHttp } }

\* A file logger and a styled logger have been constructed.
InitMeta ==
    /\ env = [ LOG4JS_LEVEL |-> undefined, LOG4JS_FILE |-> undefined,
              LOG4JS_MODE |-> undefined, AWS_LAMBDA_FUNCTION_NAME |-> undefined ]
    /\ supportsColor = TRUE
    /\ lambdaLog = TRUE
    /\ warnedAboutMissingLambdaLog = FALSE
    /\ stdout = "console.log"
    /\ writeFile = "f"
    /\ currentFilePath = ensureFilePath
    /\ loggers = << Logger_constructor("FileLogger", App, << >>),
                    Logger_constructor("ColorfulConsoleLogger", App, << >>) >>
    /\ trace = << >>
    /\ calls = << >>

NextMeta ==
    \E self \in 1..Len(loggers), meta \in MetaInputs :
        Log(self, "info", mStarting, meta, Morning, TRUE)

SpecMeta == InitMeta /\ [][NextMeta]_vars

\* The lines of what call c wrote, without colours.
WrittenLines(c) == SplitLines(Unstyled(Output(WritesIn(c)[1])))

StartsWith(s, pre) == Len(s) >= Len(pre) /\ SubSeq(s, 1, Len(pre)) = pre
EndsWith(s, suf) == Len(s) >= Len(suf) /\ SubSeq(s, Len(s) - Len(suf) + 1, Len(s)) = suf

-----------------------------------------------------------------------------
(* C19: an Error in the metadata is written as a mapping that shows at      *)
(* least its name and its message, also when the name is inherited and not  *)
(* set on the instance.                                                     *)

C19_ErrorMapping ==
    \A n \in 1..Len(calls) :
        LET c == calls[n]
        IN  (C9_Accepted(c) /\ c.meta.present) =>
              \A i \in 1..Len(c.meta.fields) :
                  LET f == c.meta.fields[i]
                      shows(k) ==
                          \E p \in 1..Len(f.v.s) :
                              /\ f.v.s[p].k = k
                              /\ \E ln \in Range(WrittenLines(c)) :
                                    ln = << " ", " ", " ", " ", k, ":", " " >> \o f.v.s[p].v.s
                  IN  f.v.t = "error" =>
                        /\ Len(WritesIn(c)) = 1
                        /\ << " ", " ", f.k, ":" >> \in Range(WrittenLines(c))
                        /\ shows("name")
                        /\ shows("message")

-----------------------------------------------------------------------------
(* C20: a function in the metadata is written as a span <hl js>SIGNATURE    *)
(* </hl> whose SIGNATURE, whatever the source of the function, ends in      *)
(* { ... } or in ... and holds no run of two or more white-space             *)
(* characters.                                                              *)

\* The signatures of the function fields of call c, as written.
C20_Signatures(c) ==
    { SubSeq(ln, 6, Len(ln)) :
        ln \in { l \in Range(WrittenLines(c)) :
                   \E i \in 1..Len(c.meta.fields) :
                       /\ c.meta.fields[i].v.t = "function"
                       /\ StartsWith(l, << " ", " ", c.meta.fields[i].k, ":", " " >>) } }

C20_SingleSpaced(sig) ==
    \A i \in 1..(Len(sig) - 1) : ~(sig[i] \in WhiteSpace /\ sig[i + 1] \in WhiteSpace)

\* The styled logger hands the signature to its highlighter as the body of
\* an hl span of language js.
C20_Span(c, sig) ==
    loggers[c.logger].kind = "ColorfulConsoleLogger" =>
        \E i \in 1..Len(CallSeg(c)) :
            /\ CallSeg(c)[i].op = "magics" /\ CallSeg(c)[i].fn = "hl"
            /\ CallSeg(c)[i].text = sig

C20_Holds(ending(_)) ==
    \A n \in 1..Len(calls) :
        LET c == calls[n]
        IN  (C9_Accepted(c) /\ c.meta.present
               /\ \E i \in 1..Len(c.meta.fields) : c.meta.fields[i].v.t = "function") =>
              /\ Len(WritesIn(c)) = 1
              /\ C20_Signatures(c) # { }
              /\ \A sig \in C20_Signatures(c) :
                    /\ C20_Span(c, sig)
                    /\ C20_SingleSpaced(sig)
                    /\ ending(sig)

C20_Ending(sig) == EndsWith(sig, << "{", " ", "...", " ", "}" >>) \/ EndsWith(sig, << "..." >>)

C20_EndingOrEmpty(sig) ==
    \/ C20_Ending(sig)
    \/ EndsWith(sig, << "{", "}" >>)
    \/ /\ StartsWith(sig, << "class" >>)
       /\ EndsWith(sig, << " ", "}" >>)
       /\ C20_Ending(SubSeq(sig, 1, Len(sig) - 2))
            \/ EndsWith(SubSeq(sig, 1, Len(sig) - 2), << "{", "}" >>)

-----------------------------------------------------------------------------
(* SpecTags: the tag matcher on every string of at most MaxTokens lexemes  *)
(* over openers, closers and text.  A plain console logger and a file      *)
(* logger have been constructed; one call writes the string.               *)

TagAlphabet == { "<hl a>", "<hl b>", "x", "</hl>" }

TagStrings == UNION { [ 1..k -> TagAlphabet ] : k \in 1..MaxTokens }

InitTags ==
    /\ env = [ LOG4JS_LEVEL |-> undefined, LOG4JS_FILE |-> undefined,
              LOG4JS_MODE |-> undefined, AWS_LAMBDA_FUNCTION_NAME |-> undefined ]
    /\ supportsColor = FALSE
    /\ lambdaLog = FALSE
    /\ warnedAboutMissingLambdaLog = FALSE
    /\ stdout = "console.log"
    /\ writeFile = "f"
    /\ currentFilePath = ensureFilePath
    /\ loggers = << Logger_constructor("ConsoleLogger", App, << >>),
                    Logger_constructor("FileLogger", App, << >>) >>
    /\ trace = << >>
    /\ calls = << >>

NextTags ==
    \E self \in 1..Len(loggers), s \in TagStrings :
        /\ calls = << >>
        /\ Log(self, "info", Str(s), NoMeta, Morning, TRUE)

SpecTags == InitTags /\ [][NextTags]_vars

-----------------------------------------------------------------------------
(* C21: tag substitution is one left-to-right pass of non-overlapping,     *)
(* non-greedy matches over the original string, and what is inserted for a *)
(* tag is not scanned again: the strip loggers write the string with each  *)
(* tag found by that pass replaced by its body, so <hl a><hl b>x</hl></hl> *)
(* is written as <hl b>x</hl> (the inner opener and the last closer stay), *)
(* not as x.                                                               *)

\* The closers of the name of the opener s[i] that can end a tag opened at i.
C21_Closers(s, i) == { k \in (i + 2)..Len(s) : s[k] = CloserOf(s[i]) }

\* One pass from position i: at an opener with a closer, the body up to the
\* first closer is kept and the pass goes on behind that closer; any other
\* lexeme is kept and the pass goes on behind it.
RECURSIVE C21_OnePass(_, _)
C21_OnePass(s, i) ==
    IF i > Len(s) THEN << >>
    ELSE IF s[i] \in OpenTags /\ C21_Closers(s, i) # { }
    THEN LET k == CHOOSE x \in C21_Closers(s, i) : \A y \in C21_Closers(s, i) : x <= y
         IN  SubSeq(s, i + 1, k - 1) \o C21_OnePass(s, k + 1)
    ELSE << s[i] >> \o C21_OnePass(s, i + 1)

C21_Nested == << "<hl a>", "<hl b>", "x", "</hl>", "</hl>" >>

C21_SinglePass ==
    \A n \in 1..Len(calls) :
        LET c == calls[n]
        IN  c.msg.t = "string" /\ ~c.meta.present
            /\ loggers[c.logger].kind \in { "ConsoleLogger", "FileLogger" } =>
              /\ Len(WritesIn(c)) = 1
              /\ Output(WritesIn(c)[1]) =
                    HeaderText(loggers[c.logger].name, c.level, c.now)
                    \o << " " >> \o C21_OnePass(c.msg.s, 1)
              /\ c.msg.s = C21_Nested =>
                    Output(WritesIn(c)[1]) =
                       HeaderText(loggers[c.logger].name, c.level, c.now)
                       \o << " ", "<hl b>", "x", "</hl>" >>

\* The file logger wrote the nested tags with the inner opener kept.
C21_Witness ==
    /\ calls # << >>
    /\ LastCall.msg = Str(C21_Nested)
    /\ loggers[LastCall.logger].kind = "FileLogger"
    /\ Len(WritesIn(LastCall)) = 1
    /\ Contains(WritesIn(LastCall)[1].text, << " ", "<hl b>", "x", "</hl>", "\n" >>)

-----------------------------------------------------------------------------
(* C22: for every input string, the body of every tag the matcher matches  *)
(* holds no closer of the name of that tag: the match ends at the first    *)
(* closer that follows the opener, also when the closer follows the opener *)
(* immediately (empty body).                                               *)

\* The first closer of the name of the opener s[i] behind position i, or 0.
C22_FirstCloser(s, i) == FirstAt(s, CloserOf(s[i]), i + 1)

C22_BodyHoldsNoCloser ==
    \A n \in 1..Len(calls) :
        LET c == calls[n]
            ms == magicTagRegExp(c.msg.s)
        IN  c.msg.t = "string" =>
              \A j \in 1..Len(ms) :
                  /\ CloserOf(c.msg.s[ms[j].from]) \notin Range(ms[j].value)
                  /\ ms[j].to = C22_FirstCloser(c.msg.s, ms[j].from)

-----------------------------------------------------------------------------
(* C23: the path of the log file is not cached across calls: every         *)
(* accepted call of a file logger passes to the write function the value   *)
(* LOG4JS_FILE has at the time of that call (latest.log when it is absent  *)
(* or empty), whatever it was when the logger was constructed or at        *)
(* earlier calls; so at any moment all file loggers write to one path.     *)

\* The path in the environment now.
C23_PathNow ==
    IF env.LOG4JS_FILE \in { undefined, << >> } THEN << "latest.log" >> ELSE env.LOG4JS_FILE

\* The paths the file loggers would hand to the write function now.
C23_PathsNow ==
    UNION { { e.path : e \in Range(FileLogger_writeOutput(i, << >>, TRUE).evs) } :
              i \in { j \in 1..Len(loggers) : loggers[j].kind = "FileLogger" } }

C23_PathNotCached ==
    [][ /\ Cardinality(C23_PathsNow) <= 1
        /\ Len(calls') > Len(calls) =>
              LET c == calls'[Len(calls')]
                  ws == SelectSeq(SubSeq(trace', Len(trace) + 1, Len(trace')), IsWrite)
              IN  (loggers[c.logger].kind = "FileLogger" /\ C9_Accepted(c)) =>
                    /\ ws # << >>
                    /\ \A i \in 1..Len(ws) : ws[i].path = C23_PathNow
      ]_vars

\* Two writes to the file went to different paths: the environment changed
\* between two calls, after the loggers were constructed.
C23_Witness ==
    /\ Len(calls) = 2
    /\ loggers[calls[1].logger].kind = "FileLogger"
    /\ Len(WritesIn(calls[1])) = 1 /\ Len(WritesIn(calls[2])) = 1
    /\ WritesIn(calls[1])[1].path = << "latest.log" >>
    /\ WritesIn(calls[2])[1].path = AppLog
    /\ env.LOG4JS_FILE = AppLog

-----------------------------------------------------------------------------
(* C24: the styled resolver of a chalk tag splits the parameter on hyphens *)
(* and applies the segments in order as a chain of styles to the body; a   *)
(* segment the styling namespace does not resolve emits one diagnostic     *)
(* message and is skipped, and the chain goes on with the segments left:   *)
(* the body is always returned, styled by the segments that resolve.       *)

\* The segments of a parameter that name a style, in order.
C24_Resolved(param) == SelectSeq(SplitHyphen(param), LAMBDA seg : seg \in ChalkStyles)

\* The segments that are no property of the styling namespace.
C24_Unresolved(param) ==
    SelectSeq(SplitHyphen(param), LAMBDA seg : seg \notin ChalkStyles \cup ChalkData)

C24_Diagnostics(c) == SelectSeq(CallSeg(c), LAMBDA e : e.op = "console.info")

C24_ChalkChain ==
    \A n \in 1..Len(calls) :
        LET c == calls[n]
            ms == magicTagRegExp(c.msg.s)
        IN  /\ loggers[c.logger].kind = "ColorfulConsoleLogger"
            /\ C9_Accepted(c)
            /\ c.msg.t = "string" /\ ~c.meta.present
            /\ Len(ms) = 1 /\ ms[1].type = "chalk"
            => /\ ~c.raised
               /\ Len(C24_Diagnostics(c)) = Len(C24_Unresolved(ms[1].param))
               /\ Len(WritesIn(c)) = 1
               /\ Contains(WritesIn(c)[1].text,
                           ApplyStyles(C24_Resolved(ms[1].param), ms[1].value))

-----------------------------------------------------------------------------
(* C25: the signature of a function is extracted by the first pattern that *)
(* matches its source, the patterns being tried in the order plain or      *)
(* async function, arrow function, method, constructor, class declaration; *)
(* when none matches the signature is function(...) { ... }.               *)

\* The first pattern that matches, in that order.
C25_FirstPattern(source) ==
    IF MATCH_FUNCTION_HEADER(source) # NoMatch THEN "function"
    ELSE IF MATCH_ARROW_FUNCTION_HEADER(source) # NoMatch THEN "arrow"
    ELSE IF MATCH_METHOD_HEADER(source) # NoMatch THEN "method"
    ELSE IF MATCH_CONSTRUCTOR_HEADER(source) # NoMatch THEN "constructor"
    ELSE IF MATCH_CLASS_HEADER(source) # NoMatch THEN "class"
    ELSE "none"

\* What a signature taken by each pattern looks like.
C25_TakenBy(pattern, sig) ==
    CASE pattern = "function" -> "function" \in Range(sig) /\ "=>" \notin Range(sig)
      [] pattern = "arrow" -> "=>" \in Range(sig)
      [] pattern = "method" -> "=>" \notin Range(sig) /\ "function" \notin Range(sig)
      [] pattern = "constructor" -> "constructor" \in Range(sig)
      [] pattern = "class" -> StartsWith(sig, << "class" >>)
      [] OTHER -> sig = << "function", "(", "...", ")", " ", "{", " ", "...", " ", "}" >>

C25_PriorityOrder ==
    \A n \in 1..Len(calls) :
        LET c == calls[n]
        IN  C9_Accepted(c) =>
              \A i \in 1..Len(c.meta.fields) :
                  c.meta.fields[i].v.t = "function" =>
                      \E sig \in C20_Signatures(c) :
                          C25_TakenBy(C25_FirstPattern(c.meta.fields[i].v.s), sig)

-----------------------------------------------------------------------------
(* C26: when LOG4JS_MODE holds the file token and nothing else, the console *)
(* logger is chosen by the auto-detection used when LOG4JS_MODE is absent:  *)
(* the structured logger if AWS_LAMBDA_FUNCTION_NAME is present, otherwise  *)
(* the styled logger if the terminal is color-capable, otherwise the plain  *)
(* one, for every combination of the two.                                   *)

C26_FileOnly == { ModeOf(<< ModeWords.file >>, style) : style \in ModeStyles }

C26_FileOnlyAutoDetects ==
    [][ (Len(loggers') > Len(loggers) /\ env.LOG4JS_MODE \in C26_FileOnly) =>
          /\ Made[1].kind = C14_AutoDetected
          /\ Made[Len(Made)].kind = "DelegateLogger"
      ]_vars

-----------------------------------------------------------------------------
(* C27: with lambda-log installed, the structured logger hands lambda-log   *)
(* exactly one event per accepted call, tagged with the list of the logger  *)
(* name alone: a string message goes as the message, verbatim (magic tags   *)
(* neither stripped nor rendered), with the metadata of the caller, or an   *)
(* empty mapping when there is none; any other message goes as an undefined *)
(* message with the metadata { msg: message, ...metadata }.                 *)

\* A sequence of fields as a mapping from keys to values (the last field of
\* a key gives its value).
C27_Mapping(fields) ==
    [ k \in { fields[i].k : i \in 1..Len(fields) } |->
        fields[CHOOSE i \in 1..Len(fields) :
                 /\ fields[i].k = k
                 /\ \A j \in (i + 1)..Len(fields) : fields[j].k # k].v ]

\* { msg: message, ...metadata }
C27_MsgAndMetadata(msg, meta) ==
    C27_Mapping(<< [ k |-> "msg", v |-> msg ] >> \o meta.fields)

C27_Events(c) == SelectSeq(CallSeg(c), LAMBDA e : e.op = "lambdaLog.log")

C27_OneEventPerCall ==
    \A n \in 1..Len(calls) :
        LET c == calls[n]
            l == loggers[c.logger]
            evs == C27_Events(c)
        IN  (l.kind = "LambdaLogger" /\ lambdaLog) =>
              /\ ~C9_Accepted(c) => evs = << >>
              /\ C9_Accepted(c) =>
                    /\ Len(evs) = 1
                    /\ Len(SelectSeq(CallSeg(c), LAMBDA e : e.op = "console.log")) = 0
                    /\ evs[1].level = c.level
                    /\ evs[1].text = l.name
                    /\ IF c.msg.t = "string"
                       THEN /\ evs[1].msg = c.msg
                            /\ evs[1].meta.present
                            /\ evs[1].meta.fields = c.meta.fields
                       ELSE /\ evs[1].msg = Undef
                            /\ evs[1].meta.present
                            /\ C27_Mapping(evs[1].meta.fields)
                                 = C27_MsgAndMetadata(c.msg, c.meta)
                            /\ Len(evs[1].meta.fields)
                                 = Cardinality(DOMAIN C27_Mapping(evs[1].meta.fields))

\* A tagged string went to lambda-log as it was given, and a number went as
\* the msg field beside the metadata of the caller.
C27_Witness ==
    /\ lambdaLog
    /\ Len(calls) = 2
    /\ \A n \in 1..2 : loggers[calls[n].logger].kind = "LambdaLogger"
    /\ calls[1].msg = mSql /\ Len(C27_Events(calls[1])) = 1
    /\ C27_Events(calls[1])[1].msg = mSql
    /\ C27_Events(calls[1])[1].meta = Meta(<< >>)
    /\ calls[2].msg = mNumber /\ calls[2].meta = metaShadow
    /\ Len(C27_Events(calls[2])) = 1
    /\ C27_Events(calls[2])[1].meta.fields =
          << [ k |-> "msg", v |-> mNumber ] >> \o metaShadow.fields

-----------------------------------------------------------------------------
(* C28: when the message is no string, a metadata field of the caller never *)
(* takes the place of the synthetic msg key: in the mapping the text        *)
(* loggers serialize and the structured logger emits, the value under msg   *)
(* is the message of the call, for every metadata mapping, one with a msg   *)
(* field of its own included.                                               *)

C28_MsgIsTheMessage ==
    \A n \in 1..Len(calls) :
        LET c == calls[n]
            l == loggers[c.logger]
            evs == SelectSeq(CallSeg(c), LAMBDA e : e.op = "lambdaLog.log")
        IN  (C9_Accepted(c) /\ c.msg.t = "number") =>
              /\ l.kind = "LambdaLogger" /\ lambdaLog =>
                    /\ Len(evs) = 1
                    /\ \A i \in 1..Len(evs[1].meta.fields) :
                          evs[1].meta.fields[i].k = "msg" =>
                              evs[1].meta.fields[i].v = c.msg
                    /\ \E i \in 1..Len(evs[1].meta.fields) : evs[1].meta.fields[i].k = "msg"
              /\ l.kind \in TextKinds =>
                    /\ Len(WritesIn(c)) = 1
                    /\ << " ", " ", "msg", ":", " " >> \o c.msg.s \in Range(WrittenLines(c))

-----------------------------------------------------------------------------
(* C29: in the two passes of the styled logger the rendering of the i-th    *)
(* matched tag is inserted exactly once, where that tag stood, and no text  *)
(* outside the matched tags is replaced: text of the form                   *)
(* <TO-BE-REPLACED-n> that the message holds is written as it is, never     *)
(* replaced by the rendering of a tag or by undefined.                      *)

C29_RenderedOnceInPlace ==
    \A n \in 1..Len(calls) :
        LET c == calls[n]
        IN  /\ loggers[c.logger].kind = "ColorfulConsoleLogger"
            /\ C9_Accepted(c) /\ ~c.raised
            /\ c.msg.t = "string" /\ ~c.meta.present
            => /\ Len(WritesIn(c)) = 1
               /\ Unstyled(WritesIn(c)[1].text) =
                     HeaderText(loggers[c.logger].name, c.level, c.now)
                     \o << " " >> \o C21_OnePass(c.msg.s, 1)
               /\ Len(SelectSeq(CallSeg(c), LAMBDA e : e.op = "magics"))
                     = Len(magicTagRegExp(c.msg.s))

-----------------------------------------------------------------------------
(* C30: a DelegateLogger forwards through the gated log of each child, so a *)
(* call reaches the renderer of a child if and only if its level passes the *)
(* threshold of the DelegateLogger and the threshold of that child; a child *)
(* whose threshold rejects the level writes nothing while the other         *)
(* children still receive the call.                                         *)

C30_Passes(level, l) ==
    l.minLevel \notin LogLevel \/ C1_Priority(level) <= C1_Priority(l.minLevel)

\* The renderer of logger i ran during call c.
C30_Rendered(c, i) ==
    \E j \in 1..Len(CallSeg(c)) :
        CallSeg(c)[j].op = "logInternal" /\ CallSeg(c)[j].by = i

C30_Wrote(c, i) ==
    \E j \in 1..Len(CallSeg(c)) : IsWrite(CallSeg(c)[j]) /\ CallSeg(c)[j].by = i

C30_BothThresholds ==
    \A n \in 1..Len(calls) :
        LET c == calls[n]
            d == loggers[c.logger]
        IN  d.kind = "DelegateLogger" =>
              \A k \in 1..Len(d.loggers) :
                  /\ C30_Rendered(c, d.loggers[k])
                       <=> (C30_Passes(c.level, d) /\ C30_Passes(c.level, loggers[d.loggers[k]]))
                  /\ ~C30_Passes(c.level, loggers[d.loggers[k]]) => ~C30_Wrote(c, d.loggers[k])

=========================================================================
